---- MODULE Spec2Model ----
(***************************************************************************)
(* Summary post-processing and validation pipeline of the clinic system:   *)
(* the inline-replacement patcher, the Markdown normalizer, the numeric    *)
(* anomaly scanner, the score aggregator, the LLM-backed checkers and      *)
(* proposer, and the request handlers.  Strings are sequences of           *)
(* one-character strings; offsets are 0-based as in the source and are     *)
(* converted to 1-based sequence positions only inside the slicing         *)
(* helpers.                                                                *)
(***************************************************************************)
EXTENDS Integers, Sequences, FiniteSets

VARIABLES
    p_pc, summary, modifications, patched_summary,   \* patcher call
    n_pc, n_text, n_once, n_twice,                   \* normalizer calls
    s_pc, s_mentions, s_text, anomalies,             \* scanner call
    a_pc, fact_check, missing_alerts, found_anomalies, overall_score, \* score
    module_model, cached_model, llm,                 \* LLM client and replies
    v_pc, v_summary, fact_check_results, highlight_results,
    v_missing_alerts, anomaly_results, report,       \* validate_summary call
    sm_pc, transcript, request_summary, normalized_summary, validation_result,
    proposed, modification_result, http_response,    \* smart-modify request
    r_pc, handler, role, attempt, r_log, r_response, \* summarize requests
    c_request, c_call, c_written, c_overlapped       \* requests in flight

patchVars == <<p_pc, summary, modifications, patched_summary>>
normVars == <<n_pc, n_text, n_once, n_twice>>
scanVars == <<s_pc, s_mentions, s_text, anomalies>>
scoreVars == <<a_pc, fact_check, missing_alerts, found_anomalies, overall_score>>
coreVars == <<patchVars, normVars, scanVars, scoreVars>>
llmVars == <<module_model, cached_model, llm>>
validateVars == <<v_pc, v_summary, fact_check_results, highlight_results,
                  v_missing_alerts, anomaly_results, report>>
modifyVars == <<sm_pc, transcript, request_summary, normalized_summary,
                validation_result, proposed, modification_result, http_response>>
retryVars == <<r_pc, handler, role, attempt, r_log, r_response>>
concurrentVars == <<c_request, c_call, c_written, c_overlapped>>
serviceVars == <<llmVars, validateVars, modifyVars, retryVars, concurrentVars>>
vars == <<coreVars, serviceVars>>

----------------------------------------------------------------------------
(* Python string primitives used by the source *)

LF == "\n"
CR == "\r"

\* characters removed by str.strip / str.lstrip / str.rstrip and matched by \s
Whitespace == {" ", "\t", LF, CR}

SetMin(S) == CHOOSE x \in S : \A y \in S : x <= y

RECURSIVE Concat(_)
\* ''.join(parts)
Concat(parts) == IF parts = <<>> THEN <<>> ELSE Head(parts) \o Concat(Tail(parts))

RECURSIVE lstrip(_)
lstrip(s) == IF s # <<>> /\ Head(s) \in Whitespace THEN lstrip(Tail(s)) ELSE s

startswith(s, prefix) ==
    Len(s) >= Len(prefix) /\ SubSeq(s, 1, Len(prefix)) = prefix

\* s.replace('\n', '')
RemoveNewlines(s) == SelectSeq(s, LAMBDA c : c # LF)

HasNewline(s) == \E i \in 1..Len(s) : s[i] = LF

\* text.find(sub): 0-based index of the first occurrence, -1 when absent
Occurrences(text, sub) ==
    {i \in 0..(Len(text) - Len(sub)) : SubSeq(text, i + 1, i + Len(sub)) = sub}

find(text, sub) ==
    IF Occurrences(text, sub) = {} THEN -1 ELSE SetMin(Occurrences(text, sub))

\* Python slice index normalisation: negative counts from the end, then clamp
ClampIndex(i, n) ==
    IF i < 0 THEN (IF i + n < 0 THEN 0 ELSE i + n)
    ELSE IF i > n THEN n ELSE i

\* text[a:b], text[:b], text[a:]
Slice(s, a, b) == SubSeq(s, ClampIndex(a, Len(s)) + 1, ClampIndex(b, Len(s)))
SliceTo(s, b) == SubSeq(s, 1, ClampIndex(b, Len(s)))
SliceFrom(s, a) == SubSeq(s, ClampIndex(a, Len(s)) + 1, Len(s))

\* positions (1-based) at which str.splitlines ends a line: a line feed, or a
\* carriage return that is not the first half of a CR LF pair, or the last
\* character of the text
LineEnds(s) ==
    {i \in 1..Len(s) :
        \/ s[i] = LF
        \/ s[i] = CR /\ ~(i < Len(s) /\ s[i + 1] = LF)
        \/ i = Len(s)}

KthEnd(s, k) == CHOOSE e \in LineEnds(s) : Cardinality({x \in LineEnds(s) : x <= e}) = k

\* summary.splitlines(keepends=True)
splitlines_keepends(s) ==
    [k \in 1..Cardinality(LineEnds(s)) |->
        SubSeq(s, IF k = 1 THEN 1 ELSE KthEnd(s, k - 1) + 1, KthEnd(s, k))]

----------------------------------------------------------------------------
(* Inline-replacement patcher *)

NoOffset == <<>>

\* variant that forgets the bold marker
protected_line_indexes_no_bold(lines) ==
    {idx \in 1..Len(lines) :
        LET stripped == lstrip(lines[idx])
        IN  \/ startswith(stripped, <<"#", "#">>)
            \/ startswith(stripped, <<"#">>)}

\* lines whose text after lstrip starts with '##', '#' or '**' (1-based indexes)
protected_line_indexes(lines) ==
    {idx \in 1..Len(lines) :
        LET stripped == lstrip(lines[idx])
        IN  \/ startswith(stripped, <<"#", "#">>)
            \/ startswith(stripped, <<"#">>)
            \/ startswith(stripped, <<"*", "*">>)}

\* cumulative length of lines[1..i]: next_pos after the i-th iteration
next_pos(lines, i) == Len(Concat(SubSeq(lines, 1, i)))

position_in_protected_line(lines, start, end) ==
    LET hits == {i \in 1..Len(lines) :
                    start < next_pos(lines, i) /\ end <= next_pos(lines, i)}
    IN  IF hits = {} THEN FALSE
        ELSE SetMin(hits) \in protected_line_indexes(lines)

\* variant that accepts explicit offsets only where the text there equals
\* original_text
RECURSIVE collect_spans_matching(_, _, _)
collect_spans_matching(full_text, lines, mods) ==
    IF mods = <<>> THEN <<>>
    ELSE
      LET mod  == Head(mods)
          rest == collect_spans_matching(full_text, lines, Tail(mods))
          orig == RemoveNewlines(mod.original_text)
          corr == RemoveNewlines(mod.correct_text)
          idx  == find(full_text, orig)
          searched == mod.start = NoOffset \/ mod.end = NoOffset
          start == IF searched THEN idx ELSE mod.start[1]
          end   == IF searched THEN idx + Len(orig) ELSE mod.end[1]
      IN  IF mod.type # "replace" THEN rest
          ELSE IF orig = <<>> \/ HasNewline(orig) \/ HasNewline(corr) THEN rest
          ELSE IF searched /\ idx = -1 THEN rest
          ELSE IF ~searched /\ Slice(full_text, start, end) # orig THEN rest
          ELSE IF position_in_protected_line(lines, start, end) THEN rest
          ELSE <<[start |-> start, end |-> end, repl |-> corr]>> \o rest

\* the loop that collects the accepted (start, end, replacement) spans
RECURSIVE collect_spans(_, _, _)
collect_spans(full_text, lines, mods) ==
    IF mods = <<>> THEN <<>>
    ELSE
      LET mod  == Head(mods)
          rest == collect_spans(full_text, lines, Tail(mods))
          orig == RemoveNewlines(mod.original_text)
          corr == RemoveNewlines(mod.correct_text)
          idx  == find(full_text, orig)
          searched == mod.start = NoOffset \/ mod.end = NoOffset
          start == IF searched THEN idx ELSE mod.start[1]
          end   == IF searched THEN idx + Len(orig) ELSE mod.end[1]
      IN  IF mod.type # "replace" THEN rest
          ELSE IF orig = <<>> \/ HasNewline(orig) \/ HasNewline(corr) THEN rest
          ELSE IF searched /\ idx = -1 THEN rest
          ELSE IF position_in_protected_line(lines, start, end) THEN rest
          ELSE <<[start |-> start, end |-> end, repl |-> corr]>> \o rest

RECURSIVE InsertDesc(_, _)
InsertDesc(sorted, x) ==
    IF sorted = <<>> THEN <<x>>
    ELSE IF Head(sorted).start >= x.start
         THEN <<Head(sorted)>> \o InsertDesc(Tail(sorted), x)
         ELSE <<x>> \o sorted

RECURSIVE SortByStartDesc(_)
\* spans.sort(key=lambda x: x[0], reverse=True): stable, descending start
SortByStartDesc(spans) ==
    IF spans = <<>> THEN <<>>
    ELSE InsertDesc(SortByStartDesc(SubSeq(spans, 1, Len(spans) - 1)),
                    spans[Len(spans)])

\* one iteration of the apply loop
apply_span(text, sp) ==
    IF HasNewline(Slice(text, sp.start, sp.end)) THEN text
    ELSE SliceTo(text, sp.start) \o sp.repl \o SliceFrom(text, sp.end)

RECURSIVE apply_spans(_, _)
apply_spans(text, spans) ==
    IF spans = <<>> THEN text
    ELSE apply_spans(apply_span(text, Head(spans)), Tail(spans))

_apply_inline_replacements_preserving_structure(s, mods) ==
    IF mods = <<>> THEN s
    ELSE
      LET lines == splitlines_keepends(s)
          full_text == Concat(lines)
          spans == collect_spans(full_text, lines, mods)
      IN  IF spans = <<>> THEN s
          ELSE apply_spans(full_text, SortByStartDesc(spans))

\* an offset that is not an integer (a JSON string, say) is written
\* <<"str", text>>; NoOffset is None and <<n>> is the integer n
StrOffset(text) == <<"str", text>>

is_int(offset) == Len(offset) = 1

\* a proposal whose offsets reach the comparisons of
\* position_in_protected_line, the sort and the slicing: with an offset that
\* is not an integer one of them raises TypeError
raises_TypeError(mods) ==
    \E i \in 1..Len(mods) :
        /\ mods[i].type = "replace"
        /\ RemoveNewlines(mods[i].original_text) # <<>>
        /\ mods[i].start # NoOffset /\ mods[i].end # NoOffset
        /\ ~is_int(mods[i].start) \/ ~is_int(mods[i].end)

----------------------------------------------------------------------------
(* Markdown normalizer.  The fixed title and the four section names are    *)
(* one-letter words here: T, and R, D, P, N.                               *)

BS == "\\"

SUMMARY_TITLE == <<"T">>

SECTION_TITLES == << <<"R">>, <<"D">>, <<"P">>, <<"N">> >>

\* "## " followed by the title
FixedHeading == <<"#", "#", " ">> \o SUMMARY_TITLE

Bold(title) == <<"*", "*">> \o title \o <<"*", "*">>

\* the ASCII colon and the full-width colon (written "fwcolon")
ColonChars == {":", "fwcolon"}

RECURSIVE rstrip(_)
rstrip(s) == IF s # <<>> /\ s[Len(s)] \in Whitespace
             THEN rstrip(SubSeq(s, 1, Len(s) - 1)) ELSE s

strip(s) == rstrip(lstrip(s))

LastOf(seq) == seq[Len(seq)]

RECURSIVE ReplaceCrLf(_)
\* text.replace("\r\n", "\n")
ReplaceCrLf(s) ==
    IF s = <<>> THEN <<>>
    ELSE IF Len(s) >= 2 /\ s[1] = CR /\ s[2] = LF
         THEN <<LF>> \o ReplaceCrLf(SubSeq(s, 3, Len(s)))
         ELSE <<Head(s)>> \o ReplaceCrLf(Tail(s))

\* variant that leaves a lone carriage return in place
ReplaceCr_kept(s) == s

\* text.replace("\r", "\n")
ReplaceCr(s) == [i \in 1..Len(s) |-> IF s[i] = CR THEN LF ELSE s[i]]

\* text.count("\\n"): occurrences of the two characters backslash, n
CountLiteral(s) ==
    Cardinality({i \in 1..(Len(s) - 1) : s[i] = BS /\ s[i + 1] = "n"})

\* text.count("\n")
CountNewlines(s) == Cardinality({i \in 1..Len(s) : s[i] = LF})

RECURSIVE ReplaceLiteral(_)
\* text.replace("\\n", "\n")
ReplaceLiteral(s) ==
    IF s = <<>> THEN <<>>
    ELSE IF Len(s) >= 2 /\ s[1] = BS /\ s[2] = "n"
         THEN <<LF>> \o ReplaceLiteral(SubSeq(s, 3, Len(s)))
         ELSE <<Head(s)>> \o ReplaceLiteral(Tail(s))

_normalize_line_endings(text) ==
    IF text = <<>> THEN text
    ELSE LET t == ReplaceCr(ReplaceCrLf(text))
         IN  IF CountLiteral(t) >= 3 /\ CountNewlines(t) <= 1
             THEN ReplaceLiteral(t) ELSE t

RECURSIVE split_lf(_)
\* text.split("\n")
split_lf(s) ==
    LET nl == {i \in 1..Len(s) : s[i] = LF}
    IN  IF nl = {} THEN <<s>>
        ELSE <<SubSeq(s, 1, SetMin(nl) - 1)>>
             \o split_lf(SubSeq(s, SetMin(nl) + 1, Len(s)))

RECURSIVE join_lf(_)
\* "\n".join(parts)
join_lf(parts) ==
    IF parts = <<>> THEN <<>>
    ELSE IF Len(parts) = 1 THEN parts[1]
    ELSE parts[1] \o <<LF>> \o join_lf(Tail(parts))

RECURSIVE StripLeadingStars(_)
\* variant whose character class omits '#'
StripLeadingStars(s) ==
    IF s # <<>> /\ Head(s) \in ({"*"} \cup Whitespace)
    THEN StripLeadingStars(Tail(s)) ELSE s

RECURSIVE StripLeadingMarkers(_)
\* re.sub(r"^[#*\s]+", "", s)
StripLeadingMarkers(s) ==
    IF s # <<>> /\ Head(s) \in ({"#", "*"} \cup Whitespace)
    THEN StripLeadingMarkers(Tail(s)) ELSE s

RECURSIVE StripTrailingColons(_)
\* re.sub(r"[:]+$", "", s) with both the ASCII and the full-width colon
StripTrailingColons(s) ==
    IF s # <<>> /\ s[Len(s)] \in ColonChars
    THEN StripTrailingColons(SubSeq(s, 1, Len(s) - 1)) ELSE s

\* variant that compares without removing the leading markers
is_heading_variant_plain(line, expected) ==
    strip(StripTrailingColons(strip(line))) = expected

_is_heading_variant(line, expected) ==
    strip(StripTrailingColons(StripLeadingMarkers(strip(line)))) = expected

append_blank_line_once(result_lines) ==
    IF Len(result_lines) = 0 \/ LastOf(result_lines) # <<>>
    THEN Append(result_lines, <<>>) ELSE result_lines

\* index of the first title of SECTION_TITLES the line is a variant of, 0 if none
matched_section(stripped) ==
    LET m == {k \in 1..Len(SECTION_TITLES) :
                 _is_heading_variant(stripped, SECTION_TITLES[k])}
    IN  IF m = {} THEN 0 ELSE SetMin(m)

RECURSIVE SkipBlank(_, _)
\* while i < len(lines) and lines[i].strip() == "": i += 1   (1-based i)
SkipBlank(lines, i) ==
    IF i <= Len(lines) /\ strip(lines[i]) = <<>> THEN SkipBlank(lines, i + 1) ELSE i

RECURSIVE main_loop_stripped(_, _, _)
\* variant that trims a content line on both sides
main_loop_stripped(lines, i, result_lines) ==
    IF i > Len(lines) THEN result_lines
    ELSE
      LET raw == lines[i]
          stripped == strip(raw)
          sec == matched_section(stripped)
      IN  IF stripped = <<>>
          THEN main_loop_stripped(lines, i + 1, append_blank_line_once(result_lines))
          ELSE IF sec # 0
          THEN main_loop_stripped(lines, SkipBlank(lines, i + 1),
                   (IF Len(result_lines) > 0 /\ LastOf(result_lines) # <<>>
                    THEN Append(result_lines, <<>>) ELSE result_lines)
                   \o <<Bold(SECTION_TITLES[sec]), <<>> >>)
          ELSE main_loop_stripped(lines, i + 1, Append(result_lines, stripped))

RECURSIVE main_loop(_, _, _)
\* the while loop over the source lines, from 1-based position i
main_loop(lines, i, result_lines) ==
    IF i > Len(lines) THEN result_lines
    ELSE
      LET raw == lines[i]
          stripped == strip(raw)
          sec == matched_section(stripped)
      IN  IF stripped = <<>>
          THEN main_loop(lines, i + 1, append_blank_line_once(result_lines))
          ELSE IF sec # 0
          THEN main_loop(lines, SkipBlank(lines, i + 1),
                   (IF Len(result_lines) > 0 /\ LastOf(result_lines) # <<>>
                    THEN Append(result_lines, <<>>) ELSE result_lines)
                   \o <<Bold(SECTION_TITLES[sec]), <<>> >>)
          ELSE main_loop(lines, i + 1, Append(result_lines, rstrip(raw)))

\* variant that keeps the blank lines at the end
TrimTrailingBlank_kept(result_lines) == result_lines

RECURSIVE TrimTrailingBlank(_)
\* while len(result_lines) > 0 and result_lines[-1] == "": pop()
TrimTrailingBlank(result_lines) ==
    IF Len(result_lines) > 0 /\ LastOf(result_lines) = <<>>
    THEN TrimTrailingBlank(SubSeq(result_lines, 1, Len(result_lines) - 1))
    ELSE result_lines

RECURSIVE Collapse(_, _)
\* drop a blank line that follows a blank line
Collapse(result_lines, collapsed) ==
    IF result_lines = <<>> THEN collapsed
    ELSE IF Head(result_lines) = <<>> /\ Len(collapsed) > 0 /\ LastOf(collapsed) = <<>>
         THEN Collapse(Tail(result_lines), collapsed)
         ELSE Collapse(Tail(result_lines), Append(collapsed, Head(result_lines)))

normalize_summary_markdown(text) ==
    IF text = <<>> THEN text
    ELSE
      LET lines == split_lf(_normalize_line_endings(text))
          first_idx == SkipBlank(lines, 1)
          skip_first_line ==
              first_idx <= Len(lines)
              /\ _is_heading_variant(lines[first_idx], SUMMARY_TITLE)
          i == first_idx + (IF skip_first_line THEN 1 ELSE 0)
          result_lines == main_loop(lines, i, <<FixedHeading, <<>> >>)
      IN  join_lf(Collapse(TrimTrailingBlank(result_lines), <<>>))

----------------------------------------------------------------------------
(* Numeric anomaly scanner.  The label characters of the heart-rate and    *)
(* blood-pressure patterns are written "xin" "lv" and "xue" "ya"; the      *)
(* temperature and blood-sugar labels are not in the input alphabet, so    *)
(* their patterns never match.                                             *)

HR_LABEL == <<"xin", "lv">>
BP_LABEL == <<"xue", "ya">>

Digits == <<"0", "1", "2", "3", "4", "5", "6", "7", "8", "9">>
IsDigit(c) == \E d \in 1..10 : Digits[d] = c
DigitVal(c) == (CHOOSE d \in 1..10 : Digits[d] = c) - 1

RECURSIVE int(_)
\* int(group) for a non-empty run of decimal digits
int(ds) ==
    IF ds = <<>> THEN 0
    ELSE 10 * int(SubSeq(ds, 1, Len(ds) - 1)) + DigitVal(ds[Len(ds)])

RECURSIVE str(_)
\* str(n) for n >= 0
str(n) == IF n < 10 THEN <<Digits[n + 1]>> ELSE str(n \div 10) \o <<Digits[(n % 10) + 1]>>

critical_values ==
    [blood_pressure |-> [normal |-> <<90, 140>>, critical |-> <<60, 180>>],
     heart_rate |-> [normal |-> <<60, 100>>, critical |-> <<40, 150>>]]

RECURSIVE SkipSpaces(_, _)
\* \s*: first 0-based offset at or after j that holds no whitespace
SkipSpaces(txt, j) ==
    IF j < Len(txt) /\ txt[j + 1] \in Whitespace THEN SkipSpaces(txt, j + 1) ELSE j

RECURSIVE SkipDigits(_, _)
\* \d*: first 0-based offset at or after j that holds no digit
SkipDigits(txt, j) ==
    IF j < Len(txt) /\ IsDigit(txt[j + 1]) THEN SkipDigits(txt, j + 1) ELSE j

\* offset after  label [colon]? \s*  when the label starts at offset i, else -1
AfterLabel(txt, i, label) ==
    IF ~startswith(SubSeq(txt, i + 1, Len(txt)), label) THEN -1
    ELSE LET j == i + Len(label)
             k == IF j < Len(txt) /\ txt[j + 1] \in ColonChars THEN j + 1 ELSE j
         IN  SkipSpaces(txt, k)

NoMatch == [start |-> -1, end |-> -1, groups |-> <<>>]

\* r'heart-rate label[:]?\s*(\d+)' matched at offset i
HrMatchAt(txt, i) ==
    LET j == AfterLabel(txt, i, HR_LABEL)
        k == SkipDigits(txt, j)
    IN  IF j = -1 \/ k = j THEN NoMatch
        ELSE [start |-> i, end |-> k, groups |-> <<SubSeq(txt, j + 1, k)>>]

\* r'blood-pressure label[:]?\s*(\d+)/(\d+)' matched at offset i
BpMatchAt(txt, i) ==
    LET j == AfterLabel(txt, i, BP_LABEL)
        k == SkipDigits(txt, j)
        m == SkipDigits(txt, k + 1)
    IN  IF j = -1 \/ k = j \/ k >= Len(txt) THEN NoMatch
        ELSE IF txt[k + 1] # "/" \/ m = k + 1 THEN NoMatch
        ELSE [start |-> i, end |-> m,
              groups |-> <<SubSeq(txt, j + 1, k), SubSeq(txt, k + 2, m)>>]

RECURSIVE hr_finditer(_, _)
\* re.finditer of the heart-rate pattern: the non-overlapping matches from
\* offset i on, left to right
hr_finditer(txt, i) ==
    IF i >= Len(txt) THEN <<>>
    ELSE IF HrMatchAt(txt, i) = NoMatch THEN hr_finditer(txt, i + 1)
    ELSE <<HrMatchAt(txt, i)>> \o hr_finditer(txt, HrMatchAt(txt, i).end)

RECURSIVE bp_finditer(_, _)
\* re.finditer of the blood-pressure pattern
bp_finditer(txt, i) ==
    IF i >= Len(txt) THEN <<>>
    ELSE IF BpMatchAt(txt, i) = NoMatch THEN bp_finditer(txt, i + 1)
    ELSE <<BpMatchAt(txt, i)>> \o bp_finditer(txt, BpMatchAt(txt, i).end)

InRange(x, range) == range[1] <= x /\ x <= range[2]

\* variant with the upper critical bound taken inclusively
hr_severity_inclusive(hr) == IF hr >= 150 \/ hr < 40 THEN "high" ELSE "medium"

hr_severity(hr) == IF hr > 150 \/ hr < 40 THEN "high" ELSE "medium"

\* variant with the upper critical bound taken inclusively
bp_severity_inclusive(systolic) ==
    IF systolic >= 180 \/ systolic < 60 THEN "high" ELSE "medium"

bp_severity(systolic) == IF systolic > 180 \/ systolic < 60 THEN "high" ELSE "medium"

\* the findings of the heart_rate branch for one match (none or one)
hr_findings(match) ==
    LET hr == int(match.groups[1])
    IN  IF InRange(hr, critical_values.heart_rate.normal) THEN <<>>
        ELSE << [value |-> str(hr), normal_range |-> "60-100",
                 severity |-> hr_severity(hr),
                 suggestion |-> "confirm heart rate",
                 position |-> <<match.start, match.end>>] >>

\* the findings of the blood_pressure branch for one match (none or one)
bp_findings(match) ==
    LET systolic == int(match.groups[1])
        diastolic == int(match.groups[2])
    IN  IF InRange(systolic, critical_values.blood_pressure.normal) THEN <<>>
        ELSE << [value |-> str(systolic) \o <<"/">> \o str(diastolic),
                 normal_range |-> "90-140/60-90",
                 severity |-> bp_severity(systolic),
                 suggestion |-> "confirm blood pressure",
                 position |-> <<match.start, match.end>>] >>

RECURSIVE hr_loop(_)
\* the inner loop over the heart-rate matches
hr_loop(matches) ==
    IF matches = <<>> THEN <<>> ELSE hr_findings(Head(matches)) \o hr_loop(Tail(matches))

RECURSIVE bp_loop(_)
\* the inner loop over the blood-pressure matches
bp_loop(matches) ==
    IF matches = <<>> THEN <<>> ELSE bp_findings(Head(matches)) \o bp_loop(Tail(matches))

\* value_patterns is iterated in insertion order: blood_pressure, heart_rate
_detect_anomalous_values(txt) ==
    bp_loop(bp_finditer(txt, 0)) \o hr_loop(hr_finditer(txt, 0))

----------------------------------------------------------------------------
(* Score aggregation *)

ValidationLevel == {"info", "warning", "error", "critical"}

\* variant in which a critical consistency finding costs nothing
fact_deduction_no_critical(level) ==
    IF level = "error" THEN 10
    ELSE IF level = "warning" THEN 5 ELSE 0

\* deduction per consistency finding
fact_deduction(level) ==
    IF level = "critical" THEN 20
    ELSE IF level = "error" THEN 10
    ELSE IF level = "warning" THEN 5 ELSE 0

\* variant that reuses the consistency weights for missing-info findings
missing_deduction_copied(level) ==
    IF level = "critical" THEN 20
    ELSE IF level = "error" THEN 10
    ELSE IF level = "warning" THEN 5 ELSE 0

\* deduction per missing-info finding
missing_deduction(level) ==
    IF level = "critical" THEN 15
    ELSE IF level = "error" THEN 8
    ELSE IF level = "warning" THEN 3 ELSE 0

\* deduction per anomaly
anomaly_deduction(severity) ==
    IF severity = "high" THEN 12
    ELSE IF severity = "medium" THEN 6 ELSE 0

RECURSIVE deduct_fact(_, _)
deduct_fact(base_score, results) ==
    IF results = <<>> THEN base_score
    ELSE deduct_fact(base_score - fact_deduction(Head(results).level), Tail(results))

RECURSIVE deduct_missing(_, _)
deduct_missing(base_score, results) ==
    IF results = <<>> THEN base_score
    ELSE deduct_missing(base_score - missing_deduction(Head(results).level), Tail(results))

RECURSIVE deduct_anomalies(_, _)
deduct_anomalies(base_score, anoms) ==
    IF anoms = <<>> THEN base_score
    ELSE deduct_anomalies(base_score - anomaly_deduction(Head(anoms).severity), Tail(anoms))

max(a, b) == IF a >= b THEN a ELSE b

_calculate_overall_score(fact, missing, anoms) ==
    max(0, deduct_anomalies(deduct_missing(deduct_fact(100, fact), missing), anoms))

----------------------------------------------------------------------------
(* The language-model client.  A reply of generate_content_async is         *)
(* described by its outcome: the call raises; or it returns text in which   *)
(* json.loads finds no JSON ("not_json"), a JSON value that is not an       *)
(* object ("json_other"), or an object ("json_object", a record).  A list   *)
(* item of the object is a record holding the keys the model supplied.      *)

Raises(error) == [kind |-> "raises", error |-> error]
NotJson == [kind |-> "not_json"]
JsonOther == [kind |-> "json_other"]
JsonObject(value) == [kind |-> "json_object", value |-> value]

\* how a call of a method ends: it returns a value or it raises
Return(value) == [ok |-> TRUE, value |-> value]
Raise(error) == [ok |-> FALSE, error |-> error]

\* a result that does not exist yet
Pending == [status |-> "pending"]

NoReplies ==
    [fact |-> NotJson, highlight |-> NotJson, missing |-> NotJson,
     proposer |-> NotJson]

\* variant that drops the cached handle on every second use
_get_gemini_model_dropping(cached, module) ==
    IF cached = "None" THEN module ELSE "None"

\* self.gemini_model after _get_gemini_model: filled from the module on first use
_get_gemini_model(cached, module) == IF cached = "None" THEN module ELSE cached

\* d.get(key, default)
dict_get(d, key, default) == IF key \in DOMAIN d THEN d[key] ELSE default

\* the common head of the try blocks: fetch the client, call it, parse the
\* reply, read the list under key (an absent key gives the empty list)
parsed_items(model, reply, key) ==
    IF model = "None" THEN Raise("Gemini model not loaded")
    ELSE IF reply.kind = "raises" THEN Raise(reply.error)
    ELSE IF reply.kind = "not_json" THEN Raise("JSONDecodeError")
    ELSE IF reply.kind = "json_other" THEN Raise("AttributeError: get")
    ELSE Return(dict_get(reply.value, key, <<>>))

\* the first of the keys, in the order the loop body reads them, that the
\* item lacks; "" when it has them all
RECURSIVE missing_key(_, _)
missing_key(item, keys) ==
    IF keys = <<>> THEN ""
    ELSE IF Head(keys) \notin DOMAIN item THEN Head(keys)
    ELSE missing_key(item, Tail(keys))

----------------------------------------------------------------------------
(* The three checkers *)

\* severity of an item to ValidationLevel
level_of(severity) ==
    IF severity = "low" THEN "warning"
    ELSE IF severity \in {"medium", "high"} THEN "error"
    ELSE "critical"

RECURSIVE issues_loop(_, _)
\* the loop over result['issues']: a KeyError leaves the loop and the list
issues_loop(issues, validation_results) ==
    IF issues = <<>> THEN Return(validation_results)
    ELSE
      LET issue == Head(issues)
          absent == missing_key(issue, <<"severity", "description", "type", "suggestion">>)
      IN  IF absent # "" THEN Raise(<<"KeyError", absent>>)
          ELSE issues_loop(Tail(issues),
                   Append(validation_results,
                          [level |-> level_of(issue.severity),
                           message |-> <<issue.description>>,
                           category |-> issue.type,
                           suggestion |-> issue.suggestion]))

\* the try block of _fact_consistency_check
fact_try(model, reply) ==
    LET items == parsed_items(model, reply, "issues")
    IN  IF items.ok THEN issues_loop(items.value, <<>>) ELSE items

_fact_consistency_check(model, reply) ==
    LET body == fact_try(model, reply)
    IN  IF body.ok THEN body
        ELSE Return(<< [level |-> "error",
                        message |-> <<"fact consistency check failed: ", body.error>>,
                        category |-> "validation_error",
                        suggestion |-> "None"] >>)

RECURSIVE highlights_loop(_, _)
\* the loop over result['highlights']
highlights_loop(items, highlights) ==
    IF items = <<>> THEN Return(highlights)
    ELSE
      LET item == Head(items)
          absent == missing_key(item, <<"text", "start_pos", "end_pos", "category",
                                        "confidence", "importance">>)
      IN  IF absent # "" THEN Raise(<<"KeyError", absent>>)
          ELSE highlights_loop(Tail(items),
                   Append(highlights,
                          [text |-> item.text, start_pos |-> item.start_pos,
                           end_pos |-> item.end_pos, category |-> item.category,
                           confidence |-> item.confidence,
                           importance |-> item.importance]))

\* the try block of _extract_and_highlight_key_info
highlight_try(model, reply) ==
    LET items == parsed_items(model, reply, "highlights")
    IN  IF items.ok THEN highlights_loop(items.value, <<>>) ELSE items

_extract_and_highlight_key_info(model, reply) ==
    LET body == highlight_try(model, reply)
    IN  IF body.ok THEN body ELSE Return(<<>>)

RECURSIVE missing_items_loop(_, _)
\* the loop over result['missing_items']
missing_items_loop(items, alerts) ==
    IF items = <<>> THEN Return(alerts)
    ELSE
      LET item == Head(items)
          absent == missing_key(item, <<"severity", "description", "type", "suggestion">>)
      IN  IF absent # "" THEN Raise(<<"KeyError", absent>>)
          ELSE missing_items_loop(Tail(items),
                   Append(alerts,
                          [level |-> level_of(item.severity),
                           message |-> <<"possibly missing: ", item.description>>,
                           category |-> item.type,
                           suggestion |-> item.suggestion]))

\* the try block of _detect_missing_information
missing_try(model, reply) ==
    LET items == parsed_items(model, reply, "missing_items")
    IN  IF items.ok THEN missing_items_loop(items.value, <<>>) ELSE items

\* variant without the except clause: the failure leaves the method
_detect_missing_information_unguarded(model, reply) ==
    missing_try(model, reply)

_detect_missing_information(model, reply) ==
    LET body == missing_try(model, reply)
    IN  IF body.ok THEN body ELSE Return(<<>>)

\* the dictionary validate_summary returns
Report(fact, highlights, missing, anoms) ==
    [fact_consistency |-> fact, highlights |-> highlights,
     missing_alerts |-> missing, anomalies |-> anoms,
     overall_score |-> _calculate_overall_score(fact, missing, anoms)]

----------------------------------------------------------------------------
(* The modification proposer.  The five clinical key terms are two-letter   *)
(* words; the ideographic full stop is written "fullstop".                  *)

FULL_STOP == "fullstop"

key_terms ==
    << <<"zhen", "duan">>, <<"zhi", "liao">>, <<"yao", "wu">>,
       <<"shou", "shu">>, <<"jian", "cha">> >>

UpperCase ==
    <<"A", "B", "C", "D", "E", "F", "G", "H", "I", "J", "K", "L", "M",
      "N", "O", "P", "Q", "R", "S", "T", "U", "V", "W", "X", "Y", "Z">>
LowerCase ==
    <<"a", "b", "c", "d", "e", "f", "g", "h", "i", "j", "k", "l", "m",
      "n", "o", "p", "q", "r", "s", "t", "u", "v", "w", "x", "y", "z">>

\* str.lower()
lower(s) ==
    [i \in 1..Len(s) |->
        IF \E k \in 1..Len(UpperCase) : UpperCase[k] = s[i]
        THEN LowerCase[CHOOSE k \in 1..Len(UpperCase) : UpperCase[k] = s[i]]
        ELSE s[i]]

\* sub in text
contains(text, sub) == Occurrences(text, sub) # {}

RECURSIVE split_on(_, _)
\* s.split(sep) for a separator of one character
split_on(s, sep) ==
    IF \A i \in 1..Len(s) : s[i] # sep THEN <<s>>
    ELSE LET k == SetMin({i \in 1..Len(s) : s[i] = sep})
         IN  <<SubSeq(s, 1, k - 1)>> \o split_on(SubSeq(s, k + 1, Len(s)), sep)

\* Python values that meet in a comparison: a member of the Enum class
\* ValidationLevel (a plain Enum, without the str mixin) and a str
EnumMember(value) == <<"ValidationLevel", value>>
Str(s) == <<"str", s>>

\* x in [...]: x equals an element of the list
py_in(x, list) == \E i \in 1..Len(list) : x = list[i]

RECURSIVE fact_detection(_)
\* the loop over validation_result['fact_consistency']
fact_detection(issues) ==
    IF issues = <<>> THEN <<>>
    ELSE
      LET issue == Head(issues)
      IN  (IF py_in(EnumMember(issue.level), <<Str("error"), Str("critical")>>)
           THEN << [type |-> "highlight",
                    title |-> "fact inconsistency",
                    description |-> <<"summary differs from transcript: ", issue.message>>,
                    original_text |-> <<"the wrong content of the summary">>,
                    correct_text |-> <<"the right content of the transcript">>,
                    reason |-> "summary inconsistent with transcript",
                    severity |-> IF EnumMember(issue.level) = Str("critical")
                                 THEN "high" ELSE "medium",
                    category |-> "fact_error"] >>
           ELSE <<>>)
          \o fact_detection(Tail(issues))

RECURSIVE anomaly_detection_replacing(_)
\* variant whose proposals ask for the value to be replaced
anomaly_detection_replacing(anoms) ==
    IF anoms = <<>> THEN <<>>
    ELSE
      LET anomaly == Head(anoms)
      IN  (IF anomaly.severity \in {"high", "medium"}
           THEN << [type |-> "replace",
                    title |-> "value anomaly",
                    description |-> <<"value may be abnormal: ", anomaly.value,
                                      anomaly.normal_range>>,
                    original_text |-> anomaly.value,
                    correct_text |-> <<"confirm the value, normal range: ",
                                       anomaly.normal_range>>,
                    reason |-> "value outside the normal range",
                    severity |-> anomaly.severity,
                    category |-> "value_error",
                    start |-> NoOffset,
                    end |-> NoOffset] >>
           ELSE <<>>)
          \o anomaly_detection_replacing(Tail(anoms))

RECURSIVE anomaly_detection(_)
\* the loop over validation_result['anomalies']
anomaly_detection(anoms) ==
    IF anoms = <<>> THEN <<>>
    ELSE
      LET anomaly == Head(anoms)
      IN  (IF anomaly.severity \in {"high", "medium"}
           THEN << [type |-> "highlight",
                    title |-> "value anomaly",
                    description |-> <<"value may be abnormal: ", anomaly.value,
                                      anomaly.normal_range>>,
                    original_text |-> anomaly.value,
                    correct_text |-> <<"confirm the value, normal range: ",
                                       anomaly.normal_range>>,
                    reason |-> "value outside the normal range",
                    severity |-> anomaly.severity,
                    category |-> "value_error"] >>
           ELSE <<>>)
          \o anomaly_detection(Tail(anoms))

\* the key terms, in listed order, found in the sentence and not in the
\* lower-cased transcript
unsupported_terms(sentence, transcript_lower) ==
    SelectSeq(key_terms,
              LAMBDA term : contains(sentence, term) /\ ~contains(transcript_lower, term))

RECURSIVE hallucination_detection(_, _)
\* the loop over summary.split(full stop): one proposal for a non-blank
\* sentence with such a term (the inner loop breaks at the first)
hallucination_detection(sentences, transcript_lower) ==
    IF sentences = <<>> THEN <<>>
    ELSE
      LET sentence == Head(sentences)
          terms == unsupported_terms(sentence, transcript_lower)
      IN  (IF strip(sentence) # <<>> /\ terms # <<>>
           THEN << [type |-> "highlight",
                    title |-> "possible hallucination",
                    description |-> <<"term not in the transcript: ", Head(terms)>>,
                    original_text |-> sentence,
                    correct_text |-> <<"confirm that the transcript says this">>,
                    reason |-> "no counterpart in the transcript",
                    severity |-> "high",
                    category |-> "hallucination"] >>
           ELSE <<>>)
          \o hallucination_detection(Tail(sentences), transcript_lower)

_generate_error_detection(txt, s, result) ==
    fact_detection(dict_get(result, "fact_consistency", <<>>))
    \o anomaly_detection(dict_get(result, "anomalies", <<>>))
    \o hallucination_detection(split_on(s, FULL_STOP), lower(txt))

\* the proposal built from one item of the model's list, absent keys defaulted
proposal_of(mod) ==
    [type |-> dict_get(mod, "type", "highlight"),
     title |-> dict_get(mod, "title", "error detection"),
     description |-> dict_get(mod, "description", ""),
     original_text |-> dict_get(mod, "original_text", <<>>),
     correct_text |-> dict_get(mod, "correct_text", <<>>),
     reason |-> dict_get(mod, "reason", ""),
     severity |-> dict_get(mod, "severity", "medium"),
     category |-> dict_get(mod, "category", "fact_error"),
     start |-> dict_get(mod, "start", NoOffset),
     end |-> dict_get(mod, "end", NoOffset)]

\* variant that keeps one proposal more
first_eleven(mods) == SliceTo(mods, 11)

\* modifications[:10]
first_ten(mods) == SliceTo(mods, 10)

\* the except clause calls self._generate_fallback_modifications, which the
\* class does not define: looking the attribute up raises AttributeError
fallback_call ==
    Raise("AttributeError: no attribute _generate_fallback_modifications")

_generate_modifications(model, reply, txt, s, result) ==
    LET items == parsed_items(model, reply, "modifications")
        listed == [i \in 1..Len(items.value) |-> proposal_of(items.value[i])]
    IN  IF items.ok
        THEN Return(first_ten(IF Len(listed) = 0
                              THEN _generate_error_detection(txt, s, result)
                              ELSE listed))
        ELSE fallback_call

----------------------------------------------------------------------------
(* The two public coroutines as functions of what the calls of one request  *)
(* see: models[k] is the handle the k-th _get_gemini_model of the request    *)
(* returns, replies the replies of the language model to the four prompts    *)

RECURSIVE handles(_, _, _)
\* the handles n successive calls of _get_gemini_model return, starting from
\* the cached handle
handles(cached, module, n) ==
    IF n = 0 THEN <<>>
    ELSE LET h == _get_gemini_model(cached, module)
         IN  <<h>> \o handles(h, module, n - 1)

\* the result dictionary of smart_modify_summary once the proposals exist
modification_dict(s, proposals, validation) ==
    IF ~proposals.ok THEN [error |-> proposals.error]
    ELSE IF raises_TypeError(proposals.value) THEN [error |-> "TypeError"]
    ELSE [original_summary |-> s,
          patched_summary |->
              _apply_inline_replacements_preserving_structure(s, proposals.value),
          modifications |-> proposals.value,
          validation_result |-> validation]

validate_summary(models, replies, s) ==
    LET fact == _fact_consistency_check(models[1], replies.fact)
        highlights == _extract_and_highlight_key_info(models[2], replies.highlight)
        missing == _detect_missing_information(models[3], replies.missing)
    IN  IF ~fact.ok THEN [error |-> fact.error]
        ELSE IF ~highlights.ok THEN [error |-> highlights.error]
        ELSE IF ~missing.ok THEN [error |-> missing.error]
        ELSE Report(fact.value, highlights.value, missing.value,
                    _detect_anomalous_values(s))

smart_modify_summary(models, replies, txt, s) ==
    LET validation == validate_summary(models, replies, s)
    IN  modification_dict(
            s, _generate_modifications(models[4], replies.proposer, txt, s, validation),
            validation)

----------------------------------------------------------------------------
(* The /summarize and /soap-summary handlers *)

max_retries == 3

\* variant that waits the same time before every retry
wait_time_flat(n) == 10

\* wait_time = (attempt + 1) * 10, in seconds
wait_time(n) == (n + 1) * 10

\* variant that takes every failure for a quota failure
is_quota_error_any(error_msg) == error_msg = error_msg

\* "quota" in error_msg.lower() or "429" in error_msg
is_quota_error(error_msg) ==
    \/ contains(lower(error_msg), <<"q", "u", "o", "t", "a">>)
    \/ contains(error_msg, <<"4", "2", "9">>)

----------------------------------------------------------------------------
(* Bounded inputs *)

\* all sequences over alphabet of length at most n
Strings(alphabet, n) == UNION {[1..k -> alphabet] : k \in 0..n}

\* all concatenations of at most n pieces
RECURSIVE Pieced(_, _)
Pieced(pieces, n) ==
    IF n = 0 THEN {<<>>}
    ELSE LET shorter == Pieced(pieces, n - 1)
         IN  shorter \cup {x \o q : x \in shorter, q \in pieces}

MaxSummaryLen == 2
MaxSeedLen == 3
MaxMods == 2
MaxPieces == 4

\* summaries handed to the patcher: short raw texts, and canonical summaries
\* (outputs of the normalizer, as the smart-modify endpoint passes them)
RawSummaries == Strings({"a", "#", LF}, MaxSummaryLen)
CanonicalSummaries ==
    {normalize_summary_markdown(x) : x \in Strings({"R", "a", LF}, MaxSeedLen)}
Summaries == RawSummaries \cup CanonicalSummaries

Proposal(type, orig, corr, start, end) ==
    [type |-> type, original_text |-> orig, correct_text |-> corr,
     start |-> start, end |-> end]

\* proposals that reference text by literal content
TextProposals ==
    {Proposal("replace", o, c, NoOffset, NoOffset) :
        o \in {<<"a">>, <<"#">>, <<"R">>}, c \in {<<>>, <<"Z">>}}
    \cup {Proposal("replace", <<"a", LF>>, <<"Z">>, NoOffset, NoOffset),
          Proposal("replace", <<"a">>, <<LF, "Z">>, NoOffset, NoOffset),
          Proposal("replace", <<>>, <<"Z">>, NoOffset, NoOffset),
          Proposal("highlight", <<"a">>, <<"Z">>, NoOffset, NoOffset),
          Proposal("remove", <<"a">>, <<>>, NoOffset, NoOffset)}

\* offsets a proposal may carry: negative, inside and beyond the short texts
Offsets == {-1, 0, 1, 2}

\* proposals that carry explicit start/end offsets
OffsetProposals ==
    {Proposal("replace", <<"a">>, <<"Z">>, <<st>>, <<en>>) :
        st \in Offsets, en \in Offsets}

Lists(S, n) == UNION {[1..k -> S] : k \in 0..n}

\* proposals as a model reply may hold them: found by text, with offsets
\* inside and outside the text, and with offsets that are not integers
TypedProposals ==
    {Proposal("replace", <<"a">>, <<"Z">>, NoOffset, NoOffset),
     Proposal("replace", <<"a">>, <<"Y">>, <<0>>, <<1>>),
     Proposal("replace", <<"a">>, <<"Y">>, <<2>>, <<3>>),
     Proposal("replace", <<"a">>, <<"Y">>, StrOffset("0"), StrOffset("1")),
     Proposal("replace", <<"a">>, <<"Y">>, <<0>>, StrOffset("1")),
     Proposal("replace", <<"a">>, <<"Y">>, NoOffset, StrOffset("1")),
     Proposal("highlight", <<"a">>, <<"Y">>, StrOffset("0"), StrOffset("1"))}

NormPieces ==
    {FixedHeading, Bold(SECTION_TITLES[1]), SUMMARY_TITLE, SECTION_TITLES[1],
     <<"a">>, <<" ">>, <<LF>>, <<CR>>, <<":">>, <<BS, "n">>}

NormInputs == Pieced(NormPieces, MaxPieces)

MaxHr == 165
MaxFact == 4
MaxMissing == 2
MaxAnomalies == 1

\* what a summary says about vital signs: heart-rate mentions with value h,
\* blood-pressure mentions with values h / d; sep is the text between the
\* label and the number, pad a leading zero
HrMention(h, sep, pad) == [kind |-> "hr", h |-> h, d |-> 0, sep |-> sep, pad |-> pad]
BpMention(h, d) == [kind |-> "bp", h |-> h, d |-> d, sep |-> <<":">>, pad |-> FALSE]

HrBoundaries == {39, 40, 59, 60, 100, 101, 150, 151}
BpBoundaries == {59, 60, 89, 90, 140, 141, 180, 181}

FirstMentions ==
    {HrMention(h, sep, FALSE) :
        h \in 0..MaxHr, sep \in {<<>>, <<":">>, <<"fwcolon", " ">>}}
    \cup {BpMention(h, d) : h \in BpBoundaries, d \in {50, 95}}

MoreMentions ==
    {HrMention(h, <<":">>, pad) : h \in HrBoundaries, pad \in BOOLEAN}
    \cup {BpMention(h, 80) : h \in BpBoundaries}

MentionLists ==
    {<<>>} \cup {<<m>> : m \in FirstMentions}
    \cup {<<m, n>> : m \in FirstMentions, n \in MoreMentions}

MentionText(m) ==
    IF m.kind = "hr"
    THEN HR_LABEL \o m.sep \o (IF m.pad THEN <<"0">> ELSE <<>>) \o str(m.h)
    ELSE BP_LABEL \o m.sep \o str(m.h) \o <<"/">> \o str(m.d)

RECURSIVE Render(_)
\* the summary text: the mentions in order, each followed by a full stop
Render(ms) ==
    IF ms = <<>> THEN <<>> ELSE MentionText(Head(ms)) \o <<".">> \o Render(Tail(ms))

Findings(n) == Lists([level : ValidationLevel], n)
AnomalyLists(n) == Lists([severity : {"high", "medium"}], n)

MaxIssues == 2
MaxHighlights == 1

\* items of a consistency reply: complete ones, and one without type and
\* suggestion
Issue(severity) ==
    [severity |-> severity, description |-> "d", type |-> "value_error",
     suggestion |-> "s"]
IssueItems ==
    {Issue("high"), Issue("critical"), [severity |-> "low", description |-> "d"]}

\* items of a missing-information reply: complete ones, and one without
\* severity
MissingItem(severity) ==
    [severity |-> severity, description |-> "d", type |-> "allergy",
     suggestion |-> "s"]
MissingItems ==
    {MissingItem("low"), MissingItem("medium"),
     [description |-> "d", type |-> "allergy", suggestion |-> "s"]}

\* items of a highlight reply: a complete one, and one without importance
HighlightItems ==
    {[text |-> "t", start_pos |-> 0, end_pos |-> 1, category |-> "symptoms",
      confidence |-> 1, importance |-> "high"],
     [text |-> "t", start_pos |-> 0, end_pos |-> 1, category |-> "symptoms",
      confidence |-> 1]}

\* replies that make a checker fail before it reads an item
BrokenReplies == {Raises("network down"), NotJson, JsonOther}

FactReplies ==
    BrokenReplies \cup {JsonObject([consistency_score |-> 80])}
    \cup {JsonObject([issues |-> l]) : l \in Lists(IssueItems, MaxIssues)}

MissingReplies ==
    BrokenReplies \cup {JsonObject([note |-> "none"])}
    \cup {JsonObject([missing_items |-> l]) : l \in Lists(MissingItems, MaxIssues)}

HighlightReplies ==
    BrokenReplies \cup {JsonObject([note |-> "none"])}
    \cup {JsonObject([highlights |-> l]) : l \in Lists(HighlightItems, MaxHighlights)}

\* summaries handed to validate_summary: no vital sign, a heart rate of 160
\* (high) and one of 120 (medium)
ValidatedSummaries ==
    {<<"a">>, MentionText(HrMention(160, <<"fwcolon">>, FALSE)),
     MentionText(HrMention(120, <<":">>, FALSE))}

MaxProposals == 11
MaxEdits == 2
MaxSentences == 11

\* items of a proposer reply
Edit(orig, corr) ==
    [type |-> "replace", original_text |-> orig, correct_text |-> corr]

\* text edits: a content word turned into a section name, deleted, replaced
\* at explicit offsets, listed without a type, and an edit of a section name
EditItems ==
    {Edit(<<"a">>, SECTION_TITLES[1]),
     Edit(<<"a">>, <<>>),
     [type |-> "replace", original_text |-> <<"a">>, correct_text |-> <<"Z">>,
      start |-> <<6>>, end |-> <<7>>],
     [original_text |-> <<"a">>, correct_text |-> <<"Z">>],
     Edit(SECTION_TITLES[1], <<"Z">>)}

\* lists of k items, all the same but for at most one
MarkedLists(n) ==
    {[i \in 1..k |-> IF i = j THEN Edit(<<"a">>, <<"Z">>)
                     ELSE [type |-> "highlight", original_text |-> <<"a">>,
                           severity |-> "high"]] :
        k \in 0..n, j \in 0..n}

ProposerReplies ==
    BrokenReplies \cup {JsonObject([note |-> "none"])}
    \cup {JsonObject([modifications |-> l]) : l \in MarkedLists(MaxProposals)}

ReportedFactReplies ==
    {Raises("network down"), JsonObject([issues |-> <<>>]),
     JsonObject([issues |-> <<Issue("critical"), Issue("high")>>])}

RECURSIVE Sentences(_)
\* n sentences that each name a diagnosis
Sentences(n) ==
    IF n = 0 THEN <<>> ELSE key_terms[1] \o <<FULL_STOP>> \o Sentences(n - 1)

\* summaries of the requests: plain, with a heart rate of 160, with a heart
\* rate of 120 and a sentence on treatment, and MaxSentences on a diagnosis
ReportedSummaries ==
    {<<"a">>,
     MentionText(HrMention(160, <<"fwcolon">>, FALSE)),
     MentionText(HrMention(120, <<":">>, FALSE)) \o <<FULL_STOP>> \o key_terms[2],
     Sentences(MaxSentences)}

Transcripts == {<<>>, <<"a">> \o key_terms[1]}

\* what one call of the model in a summarize handler gives: a text, or an
\* exception with a message (quota messages in three spellings, two others)
ModelReplies ==
    {[kind |-> "text", text |-> t] :
        t \in {<<"a">>, SUMMARY_TITLE \o <<LF, "a", " ">>}}
    \cup {Raises(e) :
            e \in {<<"q", "u", "o", "t", "a">>, <<"Q", "u", "o", "t", "a">>,
                   <<"4", "2", "9">>, <<"5", "0", "3">>,
                   <<"t", "i", "m", "e", "o", "u", "t">>}}

MaxRequests == 2

\* the requests in flight on the shared validator
Requests == 1..MaxRequests

\* what a request brings: the coroutine it calls, its texts, and the replies
\* of the language model to its prompts
RequestInput(kind, txt, s, fact, proposer) ==
    [kind |-> kind, transcript |-> txt, summary |-> s,
     replies |-> [fact |-> fact, highlight |-> JsonObject([highlights |-> <<>>]),
                  missing |-> Raises("network down"), proposer |-> proposer]]

\* a validation and three modifications: with a listed edit, with an empty
\* list (the rule-based fallback) and with a reply that cannot be parsed
RequestInputs ==
    LET s160 == FixedHeading \o <<LF, LF>>
                \o MentionText(HrMention(160, <<"fwcolon">>, FALSE)) \o <<"a">>
        issues == JsonObject([issues |-> <<Issue("critical")>>])
    IN  {RequestInput("validate", <<"a">>, s160, issues, NotJson),
         RequestInput("modify", <<"a">>, s160, issues,
                      JsonObject([modifications |-> <<Edit(<<"a">>, <<"Z">>)>>])),
         RequestInput("modify", <<"a">>, s160, JsonObject([issues |-> <<>>]),
                      JsonObject([modifications |-> <<>>])),
         RequestInput("modify", <<>>, <<"a">>, NotJson, NotJson)}

\* a request that has not called anything yet
NotStarted ==
    [pc |-> "send", stage |-> "fact", model |-> "None",
     fact |-> <<>>, highlights |-> <<>>, validation |-> Pending, result |-> Pending]

----------------------------------------------------------------------------
(* State machines *)

PatchIdle ==
    /\ p_pc = "idle" /\ summary = <<>> /\ modifications = <<>>
    /\ patched_summary = <<>>

NormIdle ==
    /\ n_pc = "idle" /\ n_text = <<>> /\ n_once = <<>> /\ n_twice = <<>>

ScanIdle ==
    /\ s_pc = "idle" /\ s_mentions = <<>> /\ s_text = <<>> /\ anomalies = <<>>

ScoreIdle ==
    /\ a_pc = "idle" /\ fact_check = <<>> /\ missing_alerts = <<>>
    /\ found_anomalies = <<>> /\ overall_score = 100

\* nothing is pending in the validator, the smart-modify endpoint or the
\* summarize handlers
LlmIdle ==
    /\ module_model = "None" /\ cached_model = "None" /\ llm = NoReplies

ValidateIdle ==
    /\ v_pc = "idle" /\ v_summary = <<>> /\ fact_check_results = <<>>
    /\ highlight_results = <<>> /\ v_missing_alerts = <<>>
    /\ anomaly_results = <<>> /\ report = Pending

ModifyIdle ==
    /\ sm_pc = "idle" /\ transcript = <<>> /\ request_summary = <<>>
    /\ normalized_summary = <<>> /\ validation_result = Pending
    /\ proposed = Pending /\ modification_result = Pending
    /\ http_response = Pending

RetryIdle ==
    /\ r_pc = "idle" /\ handler = "none" /\ role = "none" /\ attempt = 0
    /\ r_log = <<>> /\ r_response = Pending

ConcurrentIdle ==
    /\ c_request = <<>> /\ c_call = <<>> /\ c_written = {} /\ c_overlapped = FALSE

ServiceIdle ==
    LlmIdle /\ ValidateIdle /\ ModifyIdle /\ RetryIdle /\ ConcurrentIdle

\* smart_modify_summary step 3: patch the summary with the proposal list
ApplyPatch ==
    /\ p_pc = "call"
    /\ IF raises_TypeError(modifications)
       THEN /\ p_pc' = "raised"
            /\ UNCHANGED patched_summary
       ELSE /\ patched_summary' =
                   _apply_inline_replacements_preserving_structure(summary, modifications)
            /\ p_pc' = "done"
    /\ UNCHANGED <<summary, modifications, normVars, scanVars, scoreVars, serviceVars>>

InitPatch ==
    /\ p_pc = "call"
    /\ summary \in Summaries
    /\ modifications \in Lists(TextProposals, MaxMods)
    /\ patched_summary = <<>>
    /\ NormIdle /\ ScanIdle /\ ScoreIdle /\ ServiceIdle

NextPatch == ApplyPatch

SpecPatch == InitPatch /\ [][NextPatch]_vars

InitPatchOffsets ==
    /\ p_pc = "call"
    /\ summary \in RawSummaries
    /\ modifications \in Lists(OffsetProposals, MaxMods)
    /\ patched_summary = <<>>
    /\ NormIdle /\ ScanIdle /\ ScoreIdle /\ ServiceIdle

SpecPatchOffsets == InitPatchOffsets /\ [][NextPatch]_vars

InitPatchTyped ==
    /\ p_pc = "call"
    /\ summary \in RawSummaries
    /\ modifications \in Lists(TypedProposals, MaxMods)
    /\ patched_summary = <<>>
    /\ NormIdle /\ ScanIdle /\ ScoreIdle /\ ServiceIdle

SpecPatchTyped == InitPatchTyped /\ [][NextPatch]_vars

\* normalize_summary_markdown(request.summary)
NormalizeFirst ==
    /\ n_pc = "raw"
    /\ n_once' = normalize_summary_markdown(n_text)
    /\ n_pc' = "once"
    /\ UNCHANGED <<n_text, n_twice, patchVars, scanVars, scoreVars, serviceVars>>

\* normalize_summary_markdown applied to the already normalized text
NormalizeAgain ==
    /\ n_pc = "once"
    /\ n_twice' = normalize_summary_markdown(n_once)
    /\ n_pc' = "twice"
    /\ UNCHANGED <<n_text, n_once, patchVars, scanVars, scoreVars, serviceVars>>

InitNorm ==
    /\ n_pc = "raw"
    /\ n_text \in NormInputs
    /\ n_once = <<>> /\ n_twice = <<>>
    /\ PatchIdle /\ ScanIdle /\ ScoreIdle /\ ServiceIdle

NextNorm == NormalizeFirst \/ NormalizeAgain

SpecNorm == InitNorm /\ [][NextNorm]_vars

\* validate_summary step 4: scan the summary for out-of-range values
Scan ==
    /\ s_pc = "call"
    /\ anomalies' = _detect_anomalous_values(s_text)
    /\ s_pc' = "done"
    /\ UNCHANGED <<s_mentions, s_text, patchVars, normVars, scoreVars, serviceVars>>

InitScan ==
    /\ s_pc = "call"
    /\ s_mentions \in MentionLists
    /\ s_text = Render(s_mentions)
    /\ anomalies = <<>>
    /\ PatchIdle /\ NormIdle /\ ScoreIdle /\ ServiceIdle

NextScan == Scan

SpecScan == InitScan /\ [][NextScan]_vars

\* validate_summary: overall_score of the collected findings
CalculateScore ==
    /\ a_pc = "call"
    /\ overall_score' =
           _calculate_overall_score(fact_check, missing_alerts, found_anomalies)
    /\ a_pc' = "done"
    /\ UNCHANGED <<fact_check, missing_alerts, found_anomalies,
                   patchVars, normVars, scanVars, serviceVars>>

InitScore ==
    /\ a_pc = "call"
    /\ fact_check \in Findings(MaxFact)
    /\ missing_alerts \in Findings(MaxMissing)
    /\ found_anomalies \in AnomalyLists(MaxAnomalies)
    /\ overall_score = 100
    /\ PatchIdle /\ NormIdle /\ ScanIdle /\ ServiceIdle

NextScore == CalculateScore

SpecScore == InitScore /\ [][NextScore]_vars

\* validate_summary step 1: await _fact_consistency_check; an exception that
\* leaves a step ends the call with the error dictionary
FactCheck ==
    /\ v_pc = "fact"
    /\ cached_model' = _get_gemini_model(cached_model, module_model)
    /\ LET out == _fact_consistency_check(cached_model', llm.fact)
       IN  IF out.ok
           THEN /\ fact_check_results' = out.value
                /\ v_pc' = "highlight"
                /\ UNCHANGED report
           ELSE /\ report' = [error |-> out.error]
                /\ v_pc' = "done"
                /\ UNCHANGED fact_check_results
    /\ UNCHANGED <<module_model, llm, v_summary, highlight_results,
                   v_missing_alerts, anomaly_results, coreVars, concurrentVars, modifyVars,
                   retryVars>>

\* validate_summary step 2: await _extract_and_highlight_key_info
HighlightCheck ==
    /\ v_pc = "highlight"
    /\ cached_model' = _get_gemini_model(cached_model, module_model)
    /\ LET out == _extract_and_highlight_key_info(cached_model', llm.highlight)
       IN  IF out.ok
           THEN /\ highlight_results' = out.value
                /\ v_pc' = "missing"
                /\ UNCHANGED report
           ELSE /\ report' = [error |-> out.error]
                /\ v_pc' = "done"
                /\ UNCHANGED highlight_results
    /\ UNCHANGED <<module_model, llm, v_summary, fact_check_results,
                   v_missing_alerts, anomaly_results, coreVars, concurrentVars, modifyVars,
                   retryVars>>

\* validate_summary step 3: await _detect_missing_information
MissingCheck ==
    /\ v_pc = "missing"
    /\ cached_model' = _get_gemini_model(cached_model, module_model)
    /\ LET out == _detect_missing_information(cached_model', llm.missing)
       IN  IF out.ok
           THEN /\ v_missing_alerts' = out.value
                /\ v_pc' = "scan"
                /\ UNCHANGED report
           ELSE /\ report' = [error |-> out.error]
                /\ v_pc' = "done"
                /\ UNCHANGED v_missing_alerts
    /\ UNCHANGED <<module_model, llm, v_summary, fact_check_results,
                   highlight_results, anomaly_results, coreVars, concurrentVars, modifyVars,
                   retryVars>>

\* validate_summary step 4 and the return: scan the summary, score, report
ScanAndReport ==
    /\ v_pc = "scan"
    /\ anomaly_results' = _detect_anomalous_values(v_summary)
    /\ report' = Report(fact_check_results, highlight_results,
                        v_missing_alerts, anomaly_results')
    /\ v_pc' = "done"
    /\ UNCHANGED <<llmVars, v_summary, fact_check_results, highlight_results,
                   v_missing_alerts, coreVars, concurrentVars, modifyVars, retryVars>>

CoreIdle == PatchIdle /\ NormIdle /\ ScanIdle /\ ScoreIdle

InitValidate ==
    /\ v_pc = "fact"
    /\ cached_model = "None"
    /\ \/ /\ module_model = "GenerativeModel"
          /\ llm \in [fact : FactReplies, highlight : HighlightReplies,
                      missing : MissingReplies, proposer : {NotJson}]
       \/ /\ module_model = "None"
          /\ llm = NoReplies
    /\ v_summary \in ValidatedSummaries
    /\ fact_check_results = <<>> /\ highlight_results = <<>>
    /\ v_missing_alerts = <<>> /\ anomaly_results = <<>> /\ report = Pending
    /\ CoreIdle /\ ConcurrentIdle /\ ModifyIdle /\ RetryIdle

NextValidate == FactCheck \/ HighlightCheck \/ MissingCheck \/ ScanAndReport

SpecValidate == InitValidate /\ [][NextValidate]_vars

\* POST /validation/smart-modify by a doctor: normalize the summary of the
\* request and enter smart_modify_summary, which starts validate_summary
BeginSmartModify ==
    /\ sm_pc = "request"
    /\ normalized_summary' = normalize_summary_markdown(request_summary)
    /\ v_summary' = normalized_summary'
    /\ v_pc' = "fact"
    /\ sm_pc' = "validating"
    /\ UNCHANGED <<llmVars, fact_check_results, highlight_results,
                   v_missing_alerts, anomaly_results, report, transcript,
                   request_summary, validation_result, proposed,
                   modification_result, http_response, coreVars, concurrentVars, retryVars>>

\* smart_modify_summary steps 1 and 2: take the report, await the proposer
GenerateModifications ==
    /\ sm_pc = "validating"
    /\ v_pc = "done"
    /\ validation_result' = report
    /\ cached_model' = _get_gemini_model(cached_model, module_model)
    /\ proposed' = _generate_modifications(cached_model', llm.proposer, transcript,
                                           normalized_summary, report)
    /\ sm_pc' = "proposed"
    /\ UNCHANGED <<module_model, llm, validateVars, transcript, request_summary,
                   normalized_summary, modification_result, http_response,
                   coreVars, concurrentVars, retryVars>>

\* smart_modify_summary step 3 and the return: patch the summary; an
\* exception raised so far gives the error dictionary
PatchAndReturn ==
    /\ sm_pc = "proposed"
    /\ modification_result' =
           modification_dict(normalized_summary, proposed, validation_result)
    /\ sm_pc' = "returned"
    /\ UNCHANGED <<llmVars, validateVars, transcript, request_summary,
                   normalized_summary, validation_result, proposed,
                   http_response, coreVars, concurrentVars, retryVars>>

\* the endpoint's answer: 500 for the error dictionary, else the result with
\* a non-empty patched_summary normalized once more
Respond ==
    /\ sm_pc = "returned"
    /\ http_response' =
           IF "error" \in DOMAIN modification_result
           THEN [status |-> 500]
           ELSE [status |-> 200,
                 body |-> [modification_result EXCEPT
                              !.patched_summary =
                                  IF @ # <<>> THEN normalize_summary_markdown(@)
                                  ELSE @]]
    /\ sm_pc' = "done"
    /\ UNCHANGED <<llmVars, validateVars, transcript, request_summary,
                   normalized_summary, validation_result, proposed,
                   modification_result, coreVars, concurrentVars, retryVars>>

\* a smart-modify request with replies of every kind from the proposer
InitSmartModify ==
    /\ sm_pc = "request"
    /\ cached_model = "None"
    /\ \/ /\ module_model = "GenerativeModel"
          /\ llm \in [fact : ReportedFactReplies, highlight : {Raises("network down")},
                      missing : {Raises("network down")}, proposer : ProposerReplies]
       \/ /\ module_model = "None"
          /\ llm = NoReplies
    /\ transcript \in Transcripts
    /\ request_summary \in ReportedSummaries
    /\ normalized_summary = <<>> /\ validation_result = Pending
    /\ proposed = Pending /\ modification_result = Pending
    /\ http_response = Pending
    /\ CoreIdle /\ ConcurrentIdle /\ ValidateIdle /\ RetryIdle

NextSmartModify ==
    \/ BeginSmartModify
    \/ FactCheck \/ HighlightCheck \/ MissingCheck \/ ScanAndReport
    \/ GenerateModifications
    \/ PatchAndReturn
    \/ Respond

SpecSmartModify == InitSmartModify /\ [][NextSmartModify]_vars

\* a smart-modify request whose proposer reply lists text edits
InitSmartModifyText ==
    /\ sm_pc = "request"
    /\ cached_model = "None"
    /\ module_model = "GenerativeModel"
    /\ llm \in [fact : {Raises("network down")}, highlight : {Raises("network down")},
                missing : {Raises("network down")},
                proposer : {JsonObject([modifications |-> l]) :
                               l \in Lists(EditItems, MaxEdits)}]
    /\ transcript = <<>>
    /\ request_summary \in Strings({"R", "a", LF}, MaxSeedLen)
    /\ normalized_summary = <<>> /\ validation_result = Pending
    /\ proposed = Pending /\ modification_result = Pending
    /\ http_response = Pending
    /\ CoreIdle /\ ConcurrentIdle /\ ValidateIdle /\ RetryIdle

SpecSmartModifyText == InitSmartModifyText /\ [][NextSmartModify]_vars

\* the checks before the retry loop: the caller's role and the LLM client
ReceiveRequest ==
    /\ r_pc = "request"
    /\ IF role # "Doctor"
       THEN r_response' = [status |-> 403] /\ r_pc' = "done"
       ELSE IF module_model = "None"
       THEN r_response' = [status |-> 500] /\ r_pc' = "done"
       ELSE r_pc' = "call" /\ UNCHANGED r_response
    /\ UNCHANGED <<handler, role, attempt, r_log, llmVars, validateVars,
                   modifyVars, coreVars, concurrentVars>>

\* one pass of the retry loop up to its await: the call of the model and what
\* follows its return or its exception
CallModel ==
    /\ r_pc = "call"
    /\ \E reply \in ModelReplies :
          /\ r_log' = Append(r_log, [event |-> "call", reply |-> reply])
          /\ IF reply.kind = "text"
             THEN /\ r_response' =
                         [status |-> 200,
                          body |-> IF handler = "summarize"
                                   THEN strip(normalize_summary_markdown(reply.text))
                                   ELSE strip(reply.text)]
                  /\ r_pc' = "done"
             ELSE IF is_quota_error(reply.error)
             THEN IF attempt < max_retries - 1
                  THEN r_pc' = "sleep" /\ UNCHANGED r_response
                  ELSE r_response' = [status |-> 429] /\ r_pc' = "done"
             ELSE r_response' = [status |-> 500] /\ r_pc' = "done"
    /\ UNCHANGED <<handler, role, attempt, llmVars, validateVars, modifyVars,
                   coreVars, concurrentVars>>

\* await asyncio.sleep(wait_time); continue
Sleep ==
    /\ r_pc = "sleep"
    /\ r_log' = Append(r_log, [event |-> "sleep", seconds |-> wait_time(attempt)])
    /\ attempt' = attempt + 1
    /\ r_pc' = "call"
    /\ UNCHANGED <<handler, role, r_response, llmVars, validateVars, modifyVars,
                   coreVars, concurrentVars>>

InitRetry ==
    /\ r_pc = "request"
    /\ handler \in {"summarize", "soap-summary"}
    /\ role \in {"Doctor", "Patient"}
    /\ module_model \in {"GenerativeModel", "None"}
    /\ cached_model = "None" /\ llm = NoReplies
    /\ attempt = 0 /\ r_log = <<>> /\ r_response = Pending
    /\ CoreIdle /\ ConcurrentIdle /\ ValidateIdle /\ ModifyIdle

NextRetry == ReceiveRequest \/ CallModel \/ Sleep

SpecRetry == InitRetry /\ [][NextRetry]_vars

\* the step of request p from where it stands to its next await: it asks the
\* shared validator for the client and calls generate_content_async
SendCall(p) ==
    /\ c_call[p].pc = "send"
    /\ cached_model' = _get_gemini_model(cached_model, module_model)
    /\ c_written' = IF cached_model = "None"
                    THEN c_written \cup {"gemini_model"} ELSE c_written
    /\ c_call' = [c_call EXCEPT ![p].pc = "await", ![p].model = cached_model']
    /\ c_overlapped' =
           (c_overlapped \/ \E q \in Requests \ {p} : c_call[q].pc = "await")
    /\ UNCHANGED <<module_model, llm, c_request, validateVars, modifyVars,
                   retryVars, coreVars>>

\* what request p holds after the reply to its pending call: the checker's
\* findings and the next stage, or its result
after_reply(call, input) ==
    LET replies == input.replies
        finish(validation) ==
            IF input.kind = "validate"
            THEN [call EXCEPT !.pc = "done", !.result = validation]
            ELSE [call EXCEPT !.pc = "send", !.stage = "proposer",
                              !.validation = validation]
    IN  CASE call.stage = "fact" ->
               LET out == _fact_consistency_check(call.model, replies.fact)
               IN  IF out.ok
                   THEN [call EXCEPT !.pc = "send", !.stage = "highlight",
                                     !.fact = out.value]
                   ELSE finish([error |-> out.error])
          [] call.stage = "highlight" ->
               LET out == _extract_and_highlight_key_info(call.model, replies.highlight)
               IN  IF out.ok
                   THEN [call EXCEPT !.pc = "send", !.stage = "missing",
                                     !.highlights = out.value]
                   ELSE finish([error |-> out.error])
          [] call.stage = "missing" ->
               LET out == _detect_missing_information(call.model, replies.missing)
               IN  IF out.ok
                   THEN finish(Report(call.fact, call.highlights, out.value,
                                      _detect_anomalous_values(input.summary)))
                   ELSE finish([error |-> out.error])
          [] call.stage = "proposer" ->
               [call EXCEPT
                   !.pc = "done",
                   !.result =
                       modification_dict(
                           input.summary,
                           _generate_modifications(call.model, replies.proposer,
                                                   input.transcript, input.summary,
                                                   call.validation),
                           call.validation)]

\* request p resumes after its await and runs to its next call or its return
ReceiveReply(p) ==
    /\ c_call[p].pc = "await"
    /\ c_call' = [c_call EXCEPT ![p] = after_reply(c_call[p], c_request[p])]
    /\ UNCHANGED <<llmVars, c_request, c_written, c_overlapped, validateVars,
                   modifyVars, retryVars, coreVars>>

\* requests on the one module-level validator, constructed but not yet used
InitConcurrent ==
    /\ c_request \in [Requests -> RequestInputs]
    /\ c_call = [p \in Requests |-> NotStarted]
    /\ c_written = {} /\ c_overlapped = FALSE
    /\ module_model \in {"GenerativeModel", "None"}
    /\ cached_model = "None" /\ llm = NoReplies
    /\ CoreIdle /\ ValidateIdle /\ ModifyIdle /\ RetryIdle

NextConcurrent == \E p \in Requests : SendCall(p) \/ ReceiveReply(p)

SpecConcurrent == InitConcurrent /\ [][NextConcurrent]_vars

----------------------------------------------------------------------------
(* Properties of the patcher *)

PatchDone == p_pc = "done"

NumMods == Len(modifications)

\* the (start, end, replacement) span the collecting loop accepts for one
\* proposal taken alone; <<>> when the proposal is filtered out
SpanOf(s, mod) == collect_spans(s, splitlines_keepends(s), <<mod>>)

\* a line without its terminator
RECURSIVE LineContent(_)
LineContent(line) ==
    IF line # <<>> /\ line[Len(line)] \in {LF, CR}
    THEN LineContent(SubSeq(line, 1, Len(line) - 1)) ELSE line

\* 0-based offset of the first character of line k
LineStart(lines, k) == next_pos(lines, k - 1)

\* the span [start, end) lies in the content of line k
InsideLine(lines, k, start, end) ==
    /\ LineStart(lines, k) <= start
    /\ start <= end
    /\ end <= LineStart(lines, k) + Len(LineContent(lines[k]))

\* C1: a list in which every proposal has a newline in original_text or
\* correct_text leaves the summary unchanged
C1_NewlineProposalsNeverApplied ==
    (/\ PatchDone
     /\ NumMods > 0
     /\ \A i \in 1..NumMods :
           \/ HasNewline(modifications[i].original_text)
           \/ HasNewline(modifications[i].correct_text))
    => patched_summary = summary

\* C2: every protected line of the input is found character-identical at the
\* same line index of the output, whatever offsets the proposals carry
C2_ProtectedLinesUnchanged ==
    PatchDone =>
        LET inLines == splitlines_keepends(summary)
            outLines == splitlines_keepends(patched_summary)
        IN  \A idx \in protected_line_indexes(inLines) :
                /\ idx <= Len(outLines)
                /\ LineContent(outLines[idx]) = LineContent(inLines[idx])

IsCanonical(s) == s # <<>> /\ normalize_summary_markdown(s) = s

IsTitleLine(content) ==
    \/ content = FixedHeading
    \/ \E k \in 1..Len(SECTION_TITLES) : content = Bold(SECTION_TITLES[k])

\* a 'replace' proposal without offsets whose original_text occurs in s, and
\* only inside the heading line or a bold section-title line
OccursOnlyInTitleLines(s, mod) ==
    LET lines == splitlines_keepends(s)
        occ == Occurrences(s, mod.original_text)
    IN  /\ mod.type = "replace"
        /\ mod.start = NoOffset /\ mod.end = NoOffset
        /\ mod.original_text # <<>>
        /\ occ # {}
        /\ \A o \in occ : \E k \in 1..Len(lines) :
              /\ IsTitleLine(LineContent(lines[k]))
              /\ InsideLine(lines, k, o, o + Len(mod.original_text))

C3_Case ==
    /\ PatchDone
    /\ IsCanonical(summary)
    /\ NumMods > 0
    /\ \A i \in 1..NumMods : OccursOnlyInTitleLines(summary, modifications[i])

\* C3: on a canonical summary, proposals whose text occurs only inside the
\* heading or a bold section-title line leave the summary character-identical
C3_TitleOnlyTextUnchanged == C3_Case => patched_summary = summary

\* a bold section title followed by content, and a proposal to rewrite the title
C3_Witness ==
    /\ C3_Case
    /\ \E i \in 1..NumMods :
          /\ modifications[i].original_text = SECTION_TITLES[1]
          /\ modifications[i].correct_text # <<>>
    /\ Occurrences(summary, <<"a">>) # {}

\* C4: the output has exactly as many line breaks as the input
C4_LineBreaksKept ==
    PatchDone => CountNewlines(patched_summary) = CountNewlines(summary)

Reverse(seq) == [i \in 1..Len(seq) |-> seq[Len(seq) + 1 - i]]

RECURSIVE InsertAsc(_, _)
InsertAsc(sorted, x) ==
    IF sorted = <<>> THEN <<x>>
    ELSE IF \/ Head(sorted).start < x.start
            \/ Head(sorted).start = x.start /\ Head(sorted).end <= x.end
         THEN <<Head(sorted)>> \o InsertAsc(Tail(sorted), x)
         ELSE <<x>> \o sorted

RECURSIVE SortAsc(_)
SortAsc(spans) ==
    IF spans = <<>> THEN <<>>
    ELSE InsertAsc(SortAsc(SubSeq(spans, 1, Len(spans) - 1)), spans[Len(spans)])

RECURSIVE Splice(_, _, _)
\* the original text from offset pos on, with every span of the ascending,
\* non-overlapping list replaced by its replacement
Splice(original, pos, ascending) ==
    IF ascending = <<>> THEN SubSeq(original, pos + 1, Len(original))
    ELSE SubSeq(original, pos + 1, Head(ascending).start)
         \o Head(ascending).repl
         \o Splice(original, Head(ascending).end, Tail(ascending))

\* the spans the explicit offsets of the proposals denote
OffsetSpans ==
    [i \in 1..NumMods |->
        [start |-> modifications[i].start[1], end |-> modifications[i].end[1],
         repl |-> RemoveNewlines(modifications[i].correct_text)]]

\* two or more 'replace' proposals with explicit offsets, each span inside a
\* non-protected line, no two spans sharing a character
C5_Case ==
    /\ PatchDone
    /\ NumMods >= 2
    /\ \A i \in 1..NumMods :
          /\ modifications[i].type = "replace"
          /\ modifications[i].start # NoOffset /\ modifications[i].end # NoOffset
    /\ LET lines == splitlines_keepends(summary)
       IN  \A i \in 1..NumMods : \E k \in 1..Len(lines) :
              /\ k \notin protected_line_indexes(lines)
              /\ InsideLine(lines, k, OffsetSpans[i].start, OffsetSpans[i].end)
    /\ \A i, j \in 1..NumMods :
          i # j => ~(/\ OffsetSpans[i].start < OffsetSpans[j].end
                     /\ OffsetSpans[j].start < OffsetSpans[i].end)

\* C5: non-overlapping spans are all replaced as if simultaneously, and the
\* result is the same for the proposals listed in the opposite order
C5_SimultaneousAndOrderFree ==
    C5_Case =>
        /\ patched_summary = Splice(summary, 0, SortAsc(OffsetSpans))
        /\ patched_summary =
              _apply_inline_replacements_preserving_structure(
                  summary, Reverse(modifications))

\* C6: two proposals that resolve to the same span change the text as one of
\* them alone would
C6_OneEditPerSpan ==
    (/\ PatchDone
     /\ NumMods = 2
     /\ SpanOf(summary, modifications[1]) # <<>>
     /\ SpanOf(summary, modifications[2]) # <<>>
     /\ SpanOf(summary, modifications[1])[1].start = SpanOf(summary, modifications[2])[1].start
     /\ SpanOf(summary, modifications[1])[1].end = SpanOf(summary, modifications[2])[1].end)
    => \E i \in 1..2 :
          patched_summary =
              _apply_inline_replacements_preserving_structure(
                  summary, <<modifications[i]>>)

----------------------------------------------------------------------------
(* Properties of the normalizer *)

OutLines == split_lf(n_once)

\* the source lines the main loop sees
SourceLines == split_lf(_normalize_line_endings(n_text))

HeadingLinesOut == {k \in 1..Len(OutLines) : OutLines[k] = FixedHeading}

\* source lines, other than the first non-blank one, that are exactly the
\* fixed heading once right-trimmed
LaterHeadingLinesIn ==
    {k \in 1..Len(SourceLines) :
        /\ k > SkipBlank(SourceLines, 1)
        /\ rstrip(SourceLines[k]) = FixedHeading}

\* C7: normalizing the normalized text returns it unchanged
C7_Idempotent == n_pc = "twice" => n_twice = n_once

\* the first pass rewrote the text into heading, bold section title and content
C7_Witness ==
    /\ n_pc = "twice"
    /\ n_once # n_text
    /\ \E k \in 1..Len(OutLines) : OutLines[k] = Bold(SECTION_TITLES[1])
    /\ \E k \in 1..Len(OutLines) : OutLines[k] = <<"a">>

\* C8 as stated: for every input the output has the fixed heading exactly
\* once, as line 1
C8_HeadingExactlyOnce ==
    n_pc # "raw" => /\ HeadingLinesOut = {1}

\* C8 amended: for every non-empty input line 1 is the fixed heading, and the
\* heading occurs again exactly where a later source line is itself the
\* heading; the empty input gives the empty output
C8_HeadingFirst ==
    n_pc # "raw" =>
        /\ n_text = <<>> => n_once = <<>>
        /\ n_text # <<>> =>
              /\ 1 \in HeadingLinesOut
              /\ Cardinality(HeadingLinesOut) = 1 + Cardinality(LaterHeadingLinesIn)

\* a heading variant was dropped, and a later heading line was kept as content
C8_Witness ==
    /\ n_pc = "once"
    /\ n_text # <<>>
    /\ SkipBlank(SourceLines, 1) <= Len(SourceLines)
    /\ _is_heading_variant(SourceLines[SkipBlank(SourceLines, 1)], SUMMARY_TITLE)
    /\ Cardinality(HeadingLinesOut) = 2

----------------------------------------------------------------------------
(* Properties of the scanner *)

\* value, severity and displayed range of a finding
Brief(a) == [value |-> a.value, severity |-> a.severity, normal_range |-> a.normal_range]

\* what the heart-rate rule asks for one mention: nothing inside 60..100,
\* medium inside 40..150, high outside
ExpectedHr(m) ==
    IF m.kind # "hr" \/ (60 <= m.h /\ m.h <= 100) THEN <<>>
    ELSE << [value |-> str(m.h), normal_range |-> "60-100",
             severity |-> IF (40 <= m.h /\ m.h < 60) \/ (100 < m.h /\ m.h <= 150)
                          THEN "medium" ELSE "high"] >>

RECURSIVE ExpectedHrAll(_)
ExpectedHrAll(ms) ==
    IF ms = <<>> THEN <<>> ELSE ExpectedHr(Head(ms)) \o ExpectedHrAll(Tail(ms))

HrAnomalies == SelectSeq(anomalies, LAMBDA a : a.normal_range = "60-100")

\* C9: the heart-rate findings are, in order of the mentions, none for
\* 60..100, one medium for 40..59 and 101..150, one high below 40 and above
\* 150, each with value str(h) and range 60-100
C9_HeartRateBands ==
    s_pc = "done" =>
        /\ [i \in 1..Len(HrAnomalies) |-> Brief(HrAnomalies[i])] = ExpectedHrAll(s_mentions)
        /\ \A i \in 1..Len(s_mentions) :
              (s_mentions[i].kind = "hr" /\ s_mentions[i].h = 100) =>
                  \A j \in 1..Len(anomalies) : anomalies[j].value # str(100)

\* one summary with a rate of 151 (high) and a zero-padded rate of 101 (medium)
C9_Witness ==
    /\ s_pc = "done"
    /\ Len(s_mentions) = 2
    /\ s_mentions[1].kind = "hr" /\ s_mentions[1].h = 151
    /\ s_mentions[2].kind = "hr" /\ s_mentions[2].h = 101 /\ s_mentions[2].pad
    /\ Len(anomalies) = 2
    /\ anomalies[1].severity = "high" /\ anomalies[2].severity = "medium"

----------------------------------------------------------------------------
(* Properties of the score *)

Count(seq, Test(_)) == Cardinality({i \in 1..Len(seq) : Test(seq[i])})

Level(seq, l) == Count(seq, LAMBDA r : r.level = l)
Severity(seq, v) == Count(seq, LAMBDA r : r.severity = v)

WeightedDeductions ==
    20 * Level(fact_check, "critical") + 10 * Level(fact_check, "error")
    + 5 * Level(fact_check, "warning")
    + 15 * Level(missing_alerts, "critical") + 8 * Level(missing_alerts, "error")
    + 3 * Level(missing_alerts, "warning")
    + 12 * Severity(found_anomalies, "high") + 6 * Severity(found_anomalies, "medium")

\* C10: the score is max(0, 100 - weighted deductions), an integer in 0..100,
\* and info findings deduct nothing
C10_ScoreFormula ==
    a_pc = "done" =>
        /\ overall_score = (IF WeightedDeductions >= 100 THEN 0 ELSE 100 - WeightedDeductions)
        /\ overall_score \in 0..100

\* an info finding among findings whose deductions pass 100: score floored at 0
C10_Witness ==
    /\ a_pc = "done"
    /\ Level(fact_check, "info") > 0
    /\ Level(missing_alerts, "critical") > 0
    /\ Severity(found_anomalies, "high") > 0
    /\ WeightedDeductions > 100
    /\ overall_score = 0

\* the list with x put in front of position i (i = Len(seq) + 1 appends)
InsertAt(seq, i, x) == SubSeq(seq, 1, i - 1) \o <<x>> \o SubSeq(seq, i, Len(seq))

\* the score of the same report with one more critical consistency finding
ScoreWithOneMoreCritical ==
    _calculate_overall_score(Append(fact_check, [level |-> "critical"]),
                             missing_alerts, found_anomalies)

\* C11: one more critical consistency finding strictly lowers a score above 0
\* and leaves a score of 0 at 0; one more finding of any kind, at any place
\* in its list, never raises the score
C11_ScoreMonotone ==
    a_pc = "done" =>
        /\ overall_score > 0 => ScoreWithOneMoreCritical < overall_score
        /\ overall_score = 0 => ScoreWithOneMoreCritical = 0
        /\ \A l \in ValidationLevel : \A i \in 1..(Len(fact_check) + 1) :
              _calculate_overall_score(InsertAt(fact_check, i, [level |-> l]),
                                       missing_alerts, found_anomalies)
                  <= overall_score
        /\ \A l \in ValidationLevel : \A i \in 1..(Len(missing_alerts) + 1) :
              _calculate_overall_score(fact_check,
                                       InsertAt(missing_alerts, i, [level |-> l]),
                                       found_anomalies)
                  <= overall_score
        /\ \A v \in {"high", "medium", "low"} : \A i \in 1..(Len(found_anomalies) + 1) :
              _calculate_overall_score(fact_check, missing_alerts,
                                       InsertAt(found_anomalies, i, [severity |-> v]))
                  <= overall_score

\* a score between 1 and 19: the added critical finding takes it to the floor,
\* a drop smaller than the finding's weight of 20
C11_Witness ==
    /\ a_pc = "done"
    /\ overall_score \in 1..19
    /\ ScoreWithOneMoreCritical = 0

----------------------------------------------------------------------------
(* Properties of validate_summary *)

ReportKeys ==
    {"fact_consistency", "highlights", "missing_alerts", "anomalies",
     "overall_score"}

ValidateDone == v_pc = "done"

\* the reply makes the call of the model raise
CallRaises(reply) == reply.kind = "raises"

\* a checker cannot use the reply: no client, the call raises, the text is
\* not a JSON object, or an item lacks one of the required fields
Unusable(reply, key, required) ==
    \/ module_model = "None"
    \/ reply.kind \in {"raises", "not_json", "json_other"}
    \/ /\ key \in DOMAIN reply.value
       /\ \E i \in 1..Len(reply.value[key]) :
             ~(required \subseteq DOMAIN reply.value[key][i])

FindingFields == {"severity", "description", "type", "suggestion"}
HighlightFields ==
    {"text", "start_pos", "end_pos", "category", "confidence", "importance"}

FactUnusable == Unusable(llm.fact, "issues", FindingFields)
MissingUnusable == Unusable(llm.missing, "missing_items", FindingFields)
HighlightUnusable == Unusable(llm.highlight, "highlights", HighlightFields)

\* the list is one finding of level error or critical that carries a
\* failure message
OneFailureFinding(findings) ==
    /\ Len(findings) = 1
    /\ findings[1].level \in {"error", "critical"}
    /\ findings[1].category = "validation_error"
    /\ Len(findings[1].message) = 2

\* C12: when the call of the model raises for all three checkers the report
\* is still returned, its score is the score of the anomalies alone, and it
\* is 100 when the summary has no out-of-range value
C12_ScoreFromScannerOnly ==
    (/\ ValidateDone
     /\ module_model = "GenerativeModel"
     /\ CallRaises(llm.fact) /\ CallRaises(llm.highlight) /\ CallRaises(llm.missing))
    => /\ DOMAIN report = ReportKeys
       /\ report.overall_score =
              _calculate_overall_score(<<>>, <<>>, report.anomalies)
       /\ report.anomalies = <<>> => report.overall_score = 100

\* C13: a checker that fails returns, for the consistency and the
\* missing-information checker, exactly one finding of level error or
\* critical with the failure message and none of the findings parsed before,
\* and for the highlight checker the empty list
C13_FailureResults ==
    ValidateDone =>
        /\ FactUnusable => OneFailureFinding(report.fact_consistency)
        /\ MissingUnusable => OneFailureFinding(report.missing_alerts)
        /\ HighlightUnusable => report.highlights = <<>>

\* the number of items a usable reply lists under key
Listed(reply, key) == Len(dict_get(reply.value, key, <<>>))

\* C14: whatever the three checkers do, with or without an LLM client, the
\* report has exactly the five keys and no 'error' key, and every part is
\* what its own component returns: the result of a checker does not depend on
\* the other checkers, and the anomalies and the score are always computed
C14_FullReportAlways ==
    ValidateDone =>
        /\ DOMAIN report = ReportKeys
        /\ "error" \notin DOMAIN report
        /\ report.fact_consistency =
              _fact_consistency_check(module_model, llm.fact).value
        /\ report.highlights =
              _extract_and_highlight_key_info(module_model, llm.highlight).value
        /\ report.missing_alerts =
              _detect_missing_information(module_model, llm.missing).value
        /\ ~FactUnusable =>
              Len(report.fact_consistency) = Listed(llm.fact, "issues")
        /\ ~HighlightUnusable =>
              Len(report.highlights) = Listed(llm.highlight, "highlights")
        /\ ~MissingUnusable =>
              Len(report.missing_alerts) = Listed(llm.missing, "missing_items")
        /\ report.anomalies = _detect_anomalous_values(v_summary)
        /\ report.overall_score =
              _calculate_overall_score(report.fact_consistency,
                                       report.missing_alerts, report.anomalies)

\* the consistency checker failed on a missing field, the highlight call
\* raised, and the missing-information checker and the scanner still
\* delivered their findings
C14_Witness ==
    /\ ValidateDone
    /\ llm.fact.kind = "json_object" /\ FactUnusable
    /\ CallRaises(llm.highlight)
    /\ ~MissingUnusable
    /\ Len(report.missing_alerts) = 2
    /\ Len(report.anomalies) = 1
    /\ DOMAIN report = ReportKeys

----------------------------------------------------------------------------
(* Properties of the proposer and of the smart-modify request *)

ResultKeys ==
    {"original_summary", "patched_summary", "modifications", "validation_result"}

\* the proposer has been awaited
Proposed == sm_pc \in {"proposed", "returned", "done"}

\* smart_modify_summary has returned
Returned == sm_pc \in {"returned", "done"}

\* the call of the model raises, or its reply cannot be parsed
ProposerCallFails ==
    /\ module_model = "GenerativeModel"
    /\ llm.proposer.kind \in {"raises", "not_json"}

\* the items the model listed, when its reply is a JSON object
ListedItems == dict_get(llm.proposer.value, "modifications", <<>>)

\* C15: the proposer never raises, and when the call of the model raises or
\* its reply cannot be parsed, smart_modify_summary returns the four-key
\* result, not an error value
C15_ProposerNeverRaises ==
    /\ Proposed => proposed.ok
    /\ (Returned /\ ProposerCallFails) => DOMAIN modification_result = ResultKeys

Min(a, b) == IF a <= b THEN a ELSE b

C17_FallbackPerFinding ==
    (/\ Proposed /\ proposed.ok
     /\ module_model = "GenerativeModel"
     /\ llm.proposer.kind = "json_object"
     /\ Len(ListedItems) = 0
     /\ Len(proposed.value) < 10)
    => /\ \A i \in 1..Len(proposed.value) : proposed.value[i].type = "highlight"
       /\ Count(proposed.value, LAMBDA m : m.category = "fact_error")
              = Count(validation_result.fact_consistency,
                      LAMBDA f : f.level \in {"critical", "error"})
       /\ Count(proposed.value, LAMBDA m : m.category = "value_error")
              = Count(validation_result.anomalies,
                      LAMBDA a : a.severity \in {"high", "medium"})

\* the heading line and the bold section-title lines of a text, in order
StructuralLines(text) ==
    SelectSeq(split_lf(text),
              LAMBDA line :
                  \/ line = FixedHeading
                  \/ \E i \in 1..Len(SECTION_TITLES) : line = Bold(SECTION_TITLES[i]))

\* C19: the patched_summary of a smart-modify answer is a fixed point of the
\* normalizer and has the structural lines of the answer's original_summary
C19_PatchedCanonicalSameStructure ==
    (sm_pc = "done" /\ http_response.status = 200) =>
        /\ normalize_summary_markdown(http_response.body.patched_summary)
              = http_response.body.patched_summary
        /\ StructuralLines(http_response.body.patched_summary)
              = StructuralLines(http_response.body.original_summary)

----------------------------------------------------------------------------
(* Properties of the summarize handlers *)

\* positions of the log at which the model was called
CallsAt == {i \in 1..Len(r_log) : r_log[i].event = "call"}

\* the call at position i is the k-th call of the request
CallNumber(i) == Cardinality({j \in CallsAt : j <= i})

QuotaFailureAt(i) ==
    /\ r_log[i].event = "call"
    /\ r_log[i].reply.kind = "raises"
    /\ is_quota_error(r_log[i].reply.error)

----------------------------------------------------------------------------
(* Properties of the apply loop of the patcher *)

\* the spans the patcher accepts for the proposal list, in the order in
\* which the apply loop takes them
AcceptedSpans ==
    LET lines == splitlines_keepends(summary)
    IN  SortByStartDesc(collect_spans(Concat(lines), lines, modifications))

SpansInRange ==
    \A i \in 1..Len(AcceptedSpans) :
        /\ 0 <= AcceptedSpans[i].start
        /\ AcceptedSpans[i].start <= AcceptedSpans[i].end
        /\ AcceptedSpans[i].end <= Len(summary)

RECURSIVE ActsOnOriginal(_, _, _)
\* every span of the list that the loop applies, starting from text, finds
\* the text before start and the characters at [start, end) as they are in
\* the original
ActsOnOriginal(original, text, spans) ==
    IF spans = <<>> THEN TRUE
    ELSE
      LET sp == Head(spans)
      IN  /\ ~HasNewline(Slice(text, sp.start, sp.end)) =>
                /\ SliceTo(text, sp.start) = SliceTo(original, sp.start)
                /\ Slice(text, sp.start, sp.end) = Slice(original, sp.start, sp.end)
          /\ ActsOnOriginal(original, apply_span(text, sp), Tail(spans))

\* C20: for accepted spans inside the summary, overlapping and nested ones
\* included, every applied edit replaces the characters that stood at
\* [start, end) in the original summary
C20_EditsActOnOriginalText ==
    (PatchDone /\ SpansInRange) => ActsOnOriginal(summary, summary, AcceptedSpans)

----------------------------------------------------------------------------
(* Properties of the normalizer's layout and content *)

\* 1-based position at which the main loop starts in the source lines
LoopStart ==
    LET first_idx == SkipBlank(SourceLines, 1)
    IN  first_idx
        + (IF first_idx <= Len(SourceLines)
              /\ _is_heading_variant(SourceLines[first_idx], SUMMARY_TITLE)
           THEN 1 ELSE 0)

\* the non-blank source lines the main loop handles, in order
HandledLines ==
    SelectSeq(SubSeq(SourceLines, LoopStart, Len(SourceLines)),
              LAMBDA l : strip(l) # <<>>)

\* the non-blank output lines below line 1
BodyLinesOut == {k \in 2..Len(OutLines) : OutLines[k] # <<>>}

\* the number of non-blank output lines from line 2 to line k
BodyRank(k) == Cardinality({j \in BodyLinesOut : j <= k})

\* the output lines written for a source line that matched a section name
SectionLinesOut ==
    {k \in BodyLinesOut :
        /\ BodyRank(k) <= Len(HandledLines)
        /\ matched_section(strip(HandledLines[BodyRank(k)])) # 0}

OneBlankBefore(k) ==
    /\ k >= 3
    /\ OutLines[k - 1] = <<>>
    /\ OutLines[k - 2] # <<>>

OneBlankAfter(k) ==
    /\ k + 1 <= Len(OutLines)
    /\ OutLines[k + 1] = <<>>
    /\ k + 2 <= Len(OutLines) => OutLines[k + 2] # <<>>

\* C21 as stated: every bold section-title line of the output has exactly
\* one blank line before it and exactly one blank line after it
C21_SectionTitlesSpaced ==
    n_pc # "raw" =>
        \A k \in SectionLinesOut : OneBlankBefore(k) /\ OneBlankAfter(k)

\* C21 amended: every bold section-title line of the output has exactly one
\* blank line before it, and is either the last line of the output or is
\* followed by exactly one blank line and then a non-blank line
C21_SectionTitlesSpacedUnlessLast ==
    n_pc # "raw" =>
        \A k \in SectionLinesOut :
            /\ OutLines[k] \in {Bold(SECTION_TITLES[t]) : t \in 1..Len(SECTION_TITLES)}
            /\ OneBlankBefore(k)
            /\ \/ k = Len(OutLines)
               \/ OneBlankAfter(k) /\ k + 2 <= Len(OutLines)

\* two adjacent section lines were rewritten, the second one is the last
\* line of the output
C21_Witness ==
    /\ n_pc = "once"
    /\ Len(OutLines) = 5
    /\ SectionLinesOut = {3, 5}
    /\ n_text # n_once

IsBlank(line) == strip(line) = <<>>

\* C22: for a non-empty input the output has no two consecutive blank
\* lines, does not end with a blank line and holds no carriage return
C22_NoDoubleBlankNoTrailingBlankNoCr ==
    (n_pc # "raw" /\ n_text # <<>>) =>
        /\ \A k \in 1..(Len(OutLines) - 1) :
               ~(IsBlank(OutLines[k]) /\ IsBlank(OutLines[k + 1]))
        /\ ~IsBlank(LastOf(OutLines))
        /\ \A i \in 1..Len(n_once) : n_once[i] # CR

\* the input held a carriage return, two consecutive blank lines and a
\* blank last line after content
C22_Witness ==
    /\ n_pc = "once"
    /\ \E i \in 1..Len(n_text) : n_text[i] = CR
    /\ \E k \in 1..(Len(SourceLines) - 1) :
           IsBlank(SourceLines[k]) /\ IsBlank(SourceLines[k + 1])
    /\ IsBlank(LastOf(SourceLines))
    /\ HandledLines # <<>>

BoldTitles == {Bold(SECTION_TITLES[t]) : t \in 1..Len(SECTION_TITLES)}

\* the non-blank output lines below line 1, in order
BodyOut == SelectSeq(Tail(OutLines), LAMBDA l : l # <<>>)

\* what the main loop writes for a non-blank source line
Written(line) ==
    LET sec == matched_section(strip(line))
    IN  IF sec # 0 THEN Bold(SECTION_TITLES[sec]) ELSE rstrip(line)

\* C23 as stated: the non-blank output lines that are neither line 1 nor a
\* bold section title are the non-blank input lines that are neither the
\* dropped first heading variant nor a section-title variant, in order and
\* right-trimmed
C23_ContentKept ==
    n_pc # "raw" =>
        SelectSeq(BodyOut, LAMBDA l : l \notin BoldTitles)
          = LET kept == SelectSeq(HandledLines,
                                  LAMBDA l : matched_section(strip(l)) = 0)
            IN  [k \in 1..Len(kept) |-> rstrip(kept[k])]

\* C23 amended: the non-blank output lines below line 1 are, in order, the
\* non-blank input lines after the dropped first heading variant, a
\* section-title variant written as its bold title and any other line
\* right-trimmed
C23_LinesKeptInOrder ==
    n_pc # "raw" =>
        BodyOut = [k \in 1..Len(HandledLines) |-> Written(HandledLines[k])]

\* the first heading variant was dropped, a content line lost trailing
\* whitespace, and a content line reads as a bold section title
C23_Witness ==
    /\ n_pc = "once"
    /\ LoopStart > SkipBlank(SourceLines, 1)
    /\ \E k \in 1..Len(HandledLines) :
           /\ matched_section(strip(HandledLines[k])) = 0
           /\ rstrip(HandledLines[k]) \in BoldTitles
           /\ rstrip(HandledLines[k]) # HandledLines[k]

----------------------------------------------------------------------------
(* Properties of the patcher's filtering *)

\* the proposal is of kind highlight or remove, has no original_text, or
\* carries no offsets and its original_text does not occur in the text
FilteredOut(s, mod) ==
    \/ mod.type \in {"highlight", "remove"}
    \/ mod.original_text = <<>>
    \/ /\ mod.start = NoOffset
       /\ mod.end = NoOffset
       /\ find(s, mod.original_text) = -1

\* C24: when every proposal of the list is filtered out (the empty list
\* included) the patcher returns the summary unchanged
C24_NothingSurvivesUnchanged ==
    (PatchDone /\ \A i \in 1..NumMods : FilteredOut(summary, modifications[i]))
        => patched_summary = summary

\* the proposal's offsets are integers or absent
WellTyped(mod) ==
    /\ mod.start = NoOffset \/ is_int(mod.start)
    /\ mod.end = NoOffset \/ is_int(mod.end)

\* C25: for every proposal list, offsets out of range or not integers
\* included, the patcher returns a string, and the string is the one the
\* other proposals produce
C25_UnsafeSkippedOthersApplied ==
    p_pc # "call" =>
        /\ p_pc = "done"
        /\ patched_summary =
               _apply_inline_replacements_preserving_structure(
                   summary, SelectSeq(modifications, WellTyped))

----------------------------------------------------------------------------
(* Properties of the summarize handlers on other failures *)

QUOTA == <<"q", "u", "o", "t", "a">>

\* the call at log position i raised with a message that holds neither
\* "quota" in any letter case nor "429"
OtherFailureAt(i) ==
    /\ r_log[i].event = "call"
    /\ r_log[i].reply.kind = "raises"
    /\ ~contains(lower(r_log[i].reply.error), QUOTA)
    /\ ~contains(r_log[i].reply.error, <<"4", "2", "9">>)

SleepsAt == {i \in 1..Len(r_log) : r_log[i].event = "sleep"}

\* C26 as stated: a request in which a call fails with such a message makes
\* exactly one call, waits never and ends with 500
C26_OtherFailureOneCallNoWait ==
    \A i \in 1..Len(r_log) :
        OtherFailureAt(i) =>
            /\ Cardinality(CallsAt) = 1
            /\ SleepsAt = {}
            /\ r_pc = "done" /\ r_response.status = 500

\* C26 amended: a call that fails with such a message is the last event of
\* the request, which ends with 500 straight after it: no wait and no call
\* follows; when it is the first call, it is the only event
C26_OtherFailureNeverRetried ==
    \A i \in 1..Len(r_log) :
        OtherFailureAt(i) =>
            /\ i = Len(r_log)
            /\ r_pc = "done" /\ r_response.status = 500
            /\ CallNumber(i) = 1 => (CallsAt = {1} /\ SleepsAt = {})

\* a quota failure and its wait, then a timeout on the second call ends the
\* request with 500
C26_Witness ==
    /\ r_pc = "done"
    /\ r_response.status = 500
    /\ Len(r_log) = 3
    /\ QuotaFailureAt(1)
    /\ r_log[2].event = "sleep"
    /\ OtherFailureAt(3)

----------------------------------------------------------------------------
(* Properties of the patcher on explicit offsets *)

\* a single 'replace' proposal whose explicit offsets lie in the content of
\* a non-protected line
C27_Case ==
    /\ PatchDone
    /\ NumMods = 1
    /\ modifications[1].type = "replace"
    /\ modifications[1].start # NoOffset /\ modifications[1].end # NoOffset
    /\ LET lines == splitlines_keepends(summary)
       IN  \E k \in 1..Len(lines) :
              /\ k \notin protected_line_indexes(lines)
              /\ InsideLine(lines, k, OffsetSpans[1].start, OffsetSpans[1].end)

\* C27: the characters at [start, end) are replaced with correct_text,
\* whatever they are
C27_OffsetsReplaceWhateverIsThere ==
    C27_Case =>
        patched_summary =
            SliceTo(summary, OffsetSpans[1].start)
            \o OffsetSpans[1].repl
            \o SliceFrom(summary, OffsetSpans[1].end)

\* the replaced characters were not the proposal's original_text
C27_Witness ==
    /\ C27_Case
    /\ OffsetSpans[1].start < OffsetSpans[1].end
    /\ Slice(summary, OffsetSpans[1].start, OffsetSpans[1].end)
          # modifications[1].original_text
    /\ patched_summary # summary

----------------------------------------------------------------------------
(* Properties of the fallback proposals *)

\* the model's reply was parsed and listed no proposal, so that the
\* proposals are those of _generate_error_detection
FallbackUsed ==
    /\ Proposed /\ proposed.ok
    /\ module_model = "GenerativeModel"
    /\ llm.proposer.kind = "json_object"
    /\ Len(ListedItems) = 0

\* C28: proposals of the rule-based fallback are all of type 'highlight',
\* and the patched summary smart_modify_summary returns is the summary it
\* was given
C28_FallbackLeavesSummary ==
    (Returned /\ FallbackUsed) =>
        /\ \A i \in 1..Len(proposed.value) : proposed.value[i].type = "highlight"
        /\ modification_result.modifications = proposed.value
        /\ modification_result.patched_summary = normalized_summary
        /\ modification_result.original_summary = normalized_summary

\* the fallback proposed a value and a sentence that both occur in the
\* summary
C28_Witness ==
    /\ Returned /\ FallbackUsed
    /\ \E i \in 1..Len(proposed.value) :
          /\ proposed.value[i].category = "value_error"
          /\ contains(normalized_summary, proposed.value[i].original_text)
    /\ \E i \in 1..Len(proposed.value) :
          /\ proposed.value[i].category = "hallucination"
          /\ contains(normalized_summary, proposed.value[i].original_text)

----------------------------------------------------------------------------
(* Properties of the scanner on blood pressure *)

\* what the blood-pressure rule asks for one mention: nothing for a systolic
\* value inside 90..140, medium inside 60..180, high outside, whatever the
\* diastolic value
ExpectedBp(m) ==
    IF m.kind # "bp" \/ (90 <= m.h /\ m.h <= 140) THEN <<>>
    ELSE << [value |-> str(m.h) \o <<"/">> \o str(m.d),
             normal_range |-> "90-140/60-90",
             severity |-> IF m.h < 60 \/ m.h > 180 THEN "high" ELSE "medium"] >>

RECURSIVE ExpectedBpAll(_)
ExpectedBpAll(ms) ==
    IF ms = <<>> THEN <<>> ELSE ExpectedBp(Head(ms)) \o ExpectedBpAll(Tail(ms))

BpAnomalies == SelectSeq(anomalies, LAMBDA a : a.normal_range = "90-140/60-90")

\* C29: the blood-pressure findings are, in order of the mentions, one for
\* each systolic value outside 90..140, high below 60 and above 180 and
\* medium otherwise, with the range 90-140/60-90; the diastolic value
\* decides nothing
C29_BloodPressureBySystolicOnly ==
    s_pc = "done" =>
        [i \in 1..Len(BpAnomalies) |-> Brief(BpAnomalies[i])] = ExpectedBpAll(s_mentions)

\* a normal systolic value over a diastolic value of 95 gave no finding, and
\* a systolic value of 181 over a diastolic value of 80 gave a high one
C29_Witness ==
    /\ s_pc = "done"
    /\ Len(s_mentions) = 2
    /\ s_mentions[1].kind = "bp" /\ s_mentions[1].h = 140 /\ s_mentions[1].d = 95
    /\ s_mentions[2].kind = "bp" /\ s_mentions[2].h = 181 /\ s_mentions[2].d = 80
    /\ Len(anomalies) = 1
    /\ anomalies[1].severity = "high"

----------------------------------------------------------------------------
(* Properties of requests that share the validator *)

\* what the request's coroutine returns when it runs alone on a validator
\* that has just been constructed
RunAlone(input) ==
    LET models == handles("None", module_model, 4)
    IN  IF input.kind = "validate"
        THEN validate_summary(models, input.replies, input.summary)
        ELSE smart_modify_summary(models, input.replies, input.transcript,
                                  input.summary)

Finished(p) == c_call[p].pc = "done"

\* C30: only the cached client handle of the validator is ever written;
\* every finished request returns what it returns when it runs alone, and
\* two finished requests with the same inputs and replies return equal
\* results
C30_RequestsDoNotInterfere ==
    /\ c_written \subseteq {"gemini_model"}
    /\ \A p \in DOMAIN c_call :
          Finished(p) => c_call[p].result = RunAlone(c_request[p])
    /\ \A p, q \in DOMAIN c_call :
          (Finished(p) /\ Finished(q) /\ c_request[p] = c_request[q])
              => c_call[p].result = c_call[q].result

\* a validation and a modification with a client ran interleaved, and a
\* repeated modification returned the patched summary again
C30_Witness ==
    /\ c_overlapped
    /\ module_model = "GenerativeModel"
    /\ c_written = {"gemini_model"}
    /\ \A p \in DOMAIN c_call : Finished(p)
    /\ \E p, q \in DOMAIN c_call :
          /\ p # q
          /\ c_request[p] = c_request[q]
          /\ c_request[p].kind = "modify"
          /\ "patched_summary" \in DOMAIN c_call[p].result
          /\ c_call[p].result.patched_summary # c_request[p].summary

====
